---------------------------- MODULE Spec2Model ----------------------------
(***************************************************************************)
(* Model of the drs_0x01 driver: the acknowledgement reader (reader.rs),   *)
(* the register address tables it consults (addr.rs) and the frame         *)
(* encoder (builder.rs).  Bytes are the integers 0..255; the u8 operators  *)
(* of the source are modelled on that range.                               *)
(***************************************************************************)
EXTENDS Integers, Sequences, FiniteSets, TLC

VARIABLES state, buffer, panicked, ret, wire, scn, pops, accepted, builder, servo

vars ==
    <<state, buffer, panicked, ret, wire, scn, pops, accepted, builder, servo>>

(***************************************************************************)
(* u8 arithmetic: a ^ b, !a and a & 0xFE.                                  *)
(***************************************************************************)
RECURSIVE XorBits(_, _, _)
XorBits(a, b, n) ==
    IF n = 0 THEN 0
    ELSE ((a + b) % 2) + 2 * XorBits(a \div 2, b \div 2, n - 1)

Xor(a, b) == XorBits(a, b, 8)

Not(a) == 255 - a

AndFE(a) == a - (a % 2)

(***************************************************************************)
(* Register address tables (addr.rs).  A register variant is its name.     *)
(***************************************************************************)
InvalidAddress == "InvalidAddress"

\* what a `match addr` gives for a byte none of its arms names: the try_from
\* of the two readable spaces have no `_` arm
NoMatchArm == "NoMatchArm"

\* the pattern Ok(data_addr), as against Err(_)
IsOk(r) == r \notin {InvalidAddress, NoMatchArm}

ReadableRamAddr_into_u8 ==
    [
       ID |-> 0, AckPolicy |-> 1, AlarmLEDPolicy |-> 2,
       TorquePolicy |-> 3, MaxTemperature |-> 5, MinVoltage |-> 6,
       MaxVoltage |-> 7, AccelerationRatio |-> 8, MaxAcceleration |-> 9,
       DeadZone |-> 10, SaturatorOffset |-> 11, SaturatorSlope |-> 12,
       PWMOffset |-> 14, MinPWM |-> 15, MaxPWM |-> 16,
       OverloadPWMThreshold |-> 18, MinPosition |-> 20, MaxPosition |-> 22,
       PositionKp |-> 24, PositionKd |-> 26, PositionKi |-> 28,
       PositionFFFirstGain |-> 30, PositionFFSecondGain |-> 32, LedBlinkPeriod |-> 38,
       ADCFaultDetectionPeriod |-> 39, PacketGarbageDetectionPeriod |-> 40, StopDetectionPeriod |-> 41,
       OverloadDetectionPeriod |-> 42, StopThreshold |-> 43, InpositionMargin |-> 44,
       CalibrationDifference |-> 47, StatusError |-> 48, StatusDetail |-> 49,
       TorqueControl |-> 52, LEDControl |-> 53, Voltage |-> 54,
       Temperature |-> 55, CurrentControlMode |-> 56, Tick |-> 57,
       CalibratedPosition |-> 58, AbsolutePosition |-> 60, DifferentialPosition |-> 62,
       PWM |-> 64, AbsoluteGoalPosition |-> 68, AbsoluteDesiredTrajectoryPosition |-> 70,
       DesiredVelocity |-> 72 ]

ReadableRamAddr_try_from(b) ==
    CASE b = 0 -> "ID"
      [] b = 1 -> "AckPolicy"
      [] b = 2 -> "AlarmLEDPolicy"
      [] b = 3 -> "TorquePolicy"
      [] b = 5 -> "MaxTemperature"
      [] b = 6 -> "MinVoltage"
      [] b = 7 -> "MaxVoltage"
      [] b = 8 -> "AccelerationRatio"
      [] b = 9 -> "MaxAcceleration"
      [] b = 10 -> "DeadZone"
      [] b = 11 -> "SaturatorOffset"
      [] b = 12 -> "SaturatorSlope"
      [] b = 14 -> "PWMOffset"
      [] b = 15 -> "MinPWM"
      [] b = 16 -> "MaxPWM"
      [] b = 18 -> "OverloadPWMThreshold"
      [] b = 20 -> "MinPosition"
      [] b = 22 -> "MaxPosition"
      [] b = 24 -> "PositionKp"
      [] b = 26 -> "PositionKd"
      [] b = 28 -> "PositionKi"
      [] b = 30 -> "PositionFFFirstGain"
      [] b = 32 -> "PositionFFSecondGain"
      [] b = 38 -> "LedBlinkPeriod"
      [] b = 39 -> "ADCFaultDetectionPeriod"
      [] b = 40 -> "PacketGarbageDetectionPeriod"
      [] b = 41 -> "StopDetectionPeriod"
      [] b = 42 -> "OverloadDetectionPeriod"
      [] b = 43 -> "StopThreshold"
      [] b = 44 -> "InpositionMargin"
      [] b = 47 -> "CalibrationDifference"
      [] b = 48 -> "StatusError"
      [] b = 49 -> "StatusDetail"
      [] b = 52 -> "TorqueControl"
      [] b = 53 -> "LEDControl"
      [] b = 54 -> "Voltage"
      [] b = 55 -> "Temperature"
      [] b = 56 -> "CurrentControlMode"
      [] b = 57 -> "Tick"
      [] b = 58 -> "CalibratedPosition"
      [] b = 60 -> "AbsolutePosition"
      [] b = 62 -> "DifferentialPosition"
      [] b = 64 -> "PWM"
      [] b = 68 -> "AbsoluteGoalPosition"
      [] b = 70 -> "AbsoluteDesiredTrajectoryPosition"
      [] b = 72 -> "DesiredVelocity"
      [] OTHER -> NoMatchArm

ReadableRamAddr_bytes ==
    [
       ID |-> 1, AckPolicy |-> 1, AlarmLEDPolicy |-> 1,
       TorquePolicy |-> 1, MaxTemperature |-> 1, MinVoltage |-> 1,
       MaxVoltage |-> 1, AccelerationRatio |-> 1, MaxAcceleration |-> 1,
       DeadZone |-> 1, SaturatorOffset |-> 1, SaturatorSlope |-> 2,
       PWMOffset |-> 1, MinPWM |-> 1, MaxPWM |-> 2,
       OverloadPWMThreshold |-> 2, MinPosition |-> 2, MaxPosition |-> 2,
       PositionKp |-> 2, PositionKd |-> 2, PositionKi |-> 2,
       PositionFFFirstGain |-> 2, PositionFFSecondGain |-> 2, LedBlinkPeriod |-> 1,
       ADCFaultDetectionPeriod |-> 1, PacketGarbageDetectionPeriod |-> 1, StopDetectionPeriod |-> 1,
       OverloadDetectionPeriod |-> 1, StopThreshold |-> 1, InpositionMargin |-> 1,
       CalibrationDifference |-> 1, StatusError |-> 1, StatusDetail |-> 1,
       TorqueControl |-> 1, LEDControl |-> 1, Voltage |-> 2,
       Temperature |-> 2, CurrentControlMode |-> 2, Tick |-> 2,
       CalibratedPosition |-> 2, AbsolutePosition |-> 2, DifferentialPosition |-> 2,
       PWM |-> 2, AbsoluteGoalPosition |-> 2, AbsoluteDesiredTrajectoryPosition |-> 2,
       DesiredVelocity |-> 1 ]

ReadableEEPAddr_into_u8 ==
    [
       ModelNo1 |-> 0, ModelNo2 |-> 1, Version1 |-> 2,
       Version2 |-> 3, BaudRate |-> 4, ID |-> 6,
       AckPolicy |-> 7, AlarmLEDPolicy |-> 8, TorquePolicy |-> 9,
       MaxTemperature |-> 11, MinVoltage |-> 12, MaxVoltage |-> 13,
       AccelerationRatio |-> 14, MaxAccelerationTime |-> 15, DeadZone |-> 16,
       SaturatorOffset |-> 17, SaturatorSlope |-> 18, PWMOffset |-> 20,
       MinPWM |-> 21, MaxPWM |-> 22, OverloadPWMThreshold |-> 24,
       MinPosition |-> 26, MaxPosition |-> 28, PositionKp |-> 30,
       PositionKd |-> 32, PositionKi |-> 34, PositionFFFirstGain |-> 36,
       PositionFFSecondGain |-> 38, LedBlinkPeriod |-> 44, ADCFaultCheckPeriod |-> 45,
       PacketGarbageDetectionPeriod |-> 46, StopDetectionPeriod |-> 47, OverloadDetectionPeriod |-> 48,
       StopThreshold |-> 49, InpositionMargin |-> 50, CalibrationDifference |-> 53 ]

ReadableEEPAddr_try_from(b) ==
    CASE b = 0 -> "ModelNo1"
      [] b = 1 -> "ModelNo2"
      [] b = 2 -> "Version1"
      [] b = 3 -> "Version2"
      [] b = 4 -> "BaudRate"
      [] b = 6 -> "ID"
      [] b = 7 -> "AckPolicy"
      [] b = 8 -> "AlarmLEDPolicy"
      [] b = 9 -> "TorquePolicy"
      [] b = 11 -> "MaxTemperature"
      [] b = 12 -> "MinVoltage"
      [] b = 13 -> "MaxVoltage"
      [] b = 14 -> "AccelerationRatio"
      [] b = 15 -> "MaxAccelerationTime"
      [] b = 16 -> "DeadZone"
      [] b = 17 -> "SaturatorOffset"
      [] b = 18 -> "SaturatorSlope"
      [] b = 20 -> "PWMOffset"
      [] b = 21 -> "MinPWM"
      [] b = 22 -> "MaxPWM"
      [] b = 24 -> "OverloadPWMThreshold"
      [] b = 26 -> "MinPosition"
      [] b = 28 -> "MaxPosition"
      [] b = 30 -> "PositionKp"
      [] b = 32 -> "PositionKd"
      [] b = 34 -> "PositionKi"
      [] b = 36 -> "PositionFFFirstGain"
      [] b = 38 -> "PositionFFSecondGain"
      [] b = 44 -> "LedBlinkPeriod"
      [] b = 45 -> "ADCFaultCheckPeriod"
      [] b = 46 -> "PacketGarbageDetectionPeriod"
      [] b = 47 -> "StopDetectionPeriod"
      [] b = 48 -> "OverloadDetectionPeriod"
      [] b = 49 -> "StopThreshold"
      [] b = 50 -> "InpositionMargin"
      [] b = 53 -> "CalibrationDifference"
      [] OTHER -> NoMatchArm

ReadableEEPAddr_bytes ==
    [
       ModelNo1 |-> 1, ModelNo2 |-> 1, Version1 |-> 1,
       Version2 |-> 1, BaudRate |-> 1, ID |-> 1,
       AckPolicy |-> 1, AlarmLEDPolicy |-> 1, TorquePolicy |-> 1,
       MaxTemperature |-> 1, MinVoltage |-> 1, MaxVoltage |-> 1,
       AccelerationRatio |-> 1, MaxAccelerationTime |-> 1, DeadZone |-> 1,
       SaturatorOffset |-> 1, SaturatorSlope |-> 2, PWMOffset |-> 1,
       MinPWM |-> 1, MaxPWM |-> 2, OverloadPWMThreshold |-> 2,
       MinPosition |-> 2, MaxPosition |-> 2, PositionKp |-> 2,
       PositionKd |-> 2, PositionKi |-> 2, PositionFFFirstGain |-> 2,
       PositionFFSecondGain |-> 2, LedBlinkPeriod |-> 1, ADCFaultCheckPeriod |-> 1,
       PacketGarbageDetectionPeriod |-> 1, StopDetectionPeriod |-> 1, OverloadDetectionPeriod |-> 1,
       StopThreshold |-> 1, InpositionMargin |-> 1, CalibrationDifference |-> 1 ]

(***************************************************************************)
(* reader.rs: packets, commands and status registers.                      *)
(***************************************************************************)
TRAME_READER_INTERNAL_BUFFER_SIZE == 64

None == [some |-> FALSE]

Some(v) == [some |-> TRUE, val |-> v]

Nothing == [kind |-> "Nothing"]

\* u8::from(Command) with the bytes of IJog and SJog exchanged
Command_into_u8_Swapped(cmd) ==
    CASE cmd.kind = "EEPWrite" -> 65
      [] cmd.kind = "EEPRead"  -> 66
      [] cmd.kind = "RamWrite" -> 67
      [] cmd.kind = "RamRead"  -> 68
      [] cmd.kind = "IJog"     -> 70
      [] cmd.kind = "SJog"     -> 69
      [] cmd.kind = "Stat"     -> 71
      [] cmd.kind = "Rollback" -> 72
      [] cmd.kind = "Reboot"   -> 73

\* u8::from(Command)
Command_into_u8(cmd) ==
    CASE cmd.kind = "EEPWrite" -> 65
      [] cmd.kind = "EEPRead"  -> 66
      [] cmd.kind = "RamWrite" -> 67
      [] cmd.kind = "RamRead"  -> 68
      [] cmd.kind = "IJog"     -> 69
      [] cmd.kind = "SJog"     -> 70
      [] cmd.kind = "Stat"     -> 71
      [] cmd.kind = "Rollback" -> 72
      [] cmd.kind = "Reboot"   -> 73

\* InternalCommand::inject_payload; the last arm is unreachable!()
inject_payload(self, payload) ==
    CASE self = "EEPWrite" /\ payload.kind = "Nothing" -> [kind |-> "EEPWrite"]
      [] self = "RamWrite" /\ payload.kind = "Nothing" -> [kind |-> "RamWrite"]
      [] self = "IJog"     /\ payload.kind = "Nothing" -> [kind |-> "IJog"]
      [] self = "SJog"     /\ payload.kind = "Nothing" -> [kind |-> "SJog"]
      [] self = "Stat"     /\ payload.kind = "Nothing" -> [kind |-> "Stat"]
      [] self = "Rollback" /\ payload.kind = "Nothing" -> [kind |-> "Rollback"]
      [] self = "Reboot"   /\ payload.kind = "Nothing" -> [kind |-> "Reboot"]
      [] self = "EEPRead"  /\ payload.kind = "EEP" ->
             [kind |-> "EEPRead", data |-> payload.data]
      [] self = "RamRead"  /\ payload.kind = "Ram" ->
             [kind |-> "RamRead", data |-> payload.data]
      [] OTHER -> [kind |-> "unreachable"]

\* the fold of `for i in &data.data[0..data.data_len as usize] { chk1 ^= i }`
RECURSIVE XorSlice(_, _, _)
XorSlice(acc, data, n) ==
    IF n = 0 THEN acc ELSE Xor(XorSlice(acc, data, n - 1), data[n])

\* RecomputeChk1 with the loop over the data bytes left out
RecomputeChk1_NoData(pkt) ==
    LET base == Xor(Xor(pkt.psize, pkt.pid), Command_into_u8(pkt.cmd))
    IN  AndFE(
          CASE pkt.cmd.kind = "EEPRead" ->
                 Xor(Xor(base, ReadableEEPAddr_into_u8[pkt.cmd.data.addr]),
                     pkt.cmd.data.data_len)
            [] pkt.cmd.kind = "RamRead" ->
                 Xor(Xor(base, ReadableRamAddr_into_u8[pkt.cmd.data.addr]),
                     pkt.cmd.data.data_len)
            [] OTHER -> base)

\* chk1 as ACKPacket::is_valid recomputes it (before the comparison)
RecomputeChk1(pkt) ==
    LET base == Xor(Xor(pkt.psize, pkt.pid), Command_into_u8(pkt.cmd))
    IN  AndFE(
          CASE pkt.cmd.kind = "EEPRead" ->
                 LET d == pkt.cmd.data
                     a == ReadableEEPAddr_into_u8[d.addr]
                 IN  XorSlice(Xor(Xor(base, a), d.data_len), d.data, d.data_len)
            [] pkt.cmd.kind = "RamRead" ->
                 LET d == pkt.cmd.data
                     a == ReadableRamAddr_into_u8[d.addr]
                 IN  XorSlice(Xor(Xor(base, a), d.data_len), d.data, d.data_len)
            [] OTHER -> base)

\* the slice data.data[0..data_len] of a two-byte array panics when data_len > 2
SliceInBounds(pkt) ==
    pkt.cmd.kind \in {"EEPRead", "RamRead"} => pkt.cmd.data.data_len <= 2

\* is_valid with the comparison of chk2 left out
is_valid_NoChk2(pkt) == pkt.chk1 = RecomputeChk1(pkt)

\* is_valid refusing a packet whose status detail is MotorOnFlag
is_valid_StatusChecked(pkt) ==
    LET chk1 == RecomputeChk1(pkt)
    IN  pkt.chk1 = chk1 /\ pkt.chk2 = AndFE(Not(chk1)) /\ pkt.detail # "MotorOnFlag"

\* ACKPacket::is_valid, for a packet whose slice is in bounds
is_valid(pkt) ==
    LET chk1 == RecomputeChk1(pkt)
    IN  pkt.chk1 = chk1 /\ pkt.chk2 = AndFE(Not(chk1))

\* add_to_buffer pushing the packet whether it is valid or not
add_to_buffer_Unchecked(size, pid, cmd, chk1, chk2, payload, status_error, status_detail) ==
    LET c == inject_payload(cmd, payload)
        packet == [psize |-> size, pid |-> pid, cmd |-> c, chk1 |-> chk1,
                   chk2 |-> chk2, error |-> status_error, detail |-> status_detail]
    IN  IF c.kind = "unreachable" THEN [panic |-> TRUE, result |-> None]
        ELSE IF ~SliceInBounds(packet) THEN [panic |-> TRUE, result |-> None]
        ELSE [panic |-> FALSE, result |-> Some(packet)]

\* ReaderState::add_to_buffer: result and whether the call panicked
add_to_buffer(size, pid, cmd, chk1, chk2, payload, status_error, status_detail) ==
    LET c == inject_payload(cmd, payload)
        packet == [psize |-> size, pid |-> pid, cmd |-> c, chk1 |-> chk1,
                   chk2 |-> chk2, error |-> status_error, detail |-> status_detail]
    IN  IF c.kind = "unreachable" THEN [panic |-> TRUE, result |-> None]
        ELSE IF ~SliceInBounds(packet) THEN [panic |-> TRUE, result |-> None]
        ELSE IF is_valid(packet) THEN [panic |-> FALSE, result |-> Some(packet)]
        ELSE [panic |-> FALSE, result |-> None]

(***************************************************************************)
(* ReaderState and ReaderState::step.                                      *)
(***************************************************************************)
H1 == [st |-> "H1"]

H2 == [st |-> "H2"]

Psize == [st |-> "Psize"]

\* the `match byte` of the Cmd arm
InternalCommandOf(byte) ==
    CASE byte = 65 -> "EEPWrite"
      [] byte = 66 -> "EEPRead"
      [] byte = 67 -> "RamWrite"
      [] byte = 68 -> "RamRead"
      [] byte = 69 -> "IJog"
      [] byte = 70 -> "SJog"
      [] byte = 71 -> "Stat"
      [] byte = 72 -> "Rollback"
      [] byte = 73 -> "Reboot"
      [] OTHER -> "NoCommand"

\* the Error arm with 0x03 taken for ExceedAllowedPOTLimit
StatusErrorOf_Lenient(byte) ==
    CASE byte = 0  -> "NoError"
      [] byte = 1  -> "ExceedInputVoltageLimit"
      [] byte = 2  -> "ExceedAllowedPOTLimit"
      [] byte = 3  -> "ExceedAllowedPOTLimit"
      [] byte = 4  -> "ExceedTemperatureLimit"
      [] byte = 8  -> "InvalidPacket"
      [] byte = 16 -> "OverloadDetected"
      [] byte = 32 -> "DriverFaultDetected"
      [] byte = 64 -> "EEPREGDistorded"
      [] OTHER -> "NoMatch"

\* the `match byte` of the Error arm
StatusErrorOf(byte) ==
    CASE byte = 0  -> "NoError"
      [] byte = 1  -> "ExceedInputVoltageLimit"
      [] byte = 2  -> "ExceedAllowedPOTLimit"
      [] byte = 4  -> "ExceedTemperatureLimit"
      [] byte = 8  -> "InvalidPacket"
      [] byte = 16 -> "OverloadDetected"
      [] byte = 32 -> "DriverFaultDetected"
      [] byte = 64 -> "EEPREGDistorded"
      [] OTHER -> "NoMatch"

\* the `match byte` of the Detail arm
StatusDetailOf(byte) ==
    CASE byte = 0  -> "NoDetail"
      [] byte = 1  -> "MovingFlag"
      [] byte = 2  -> "ImpositionFlag"
      [] byte = 4  -> "ChecksumError"
      [] byte = 8  -> "UnknownCommand"
      [] byte = 16 -> "ExceedREGRange"
      [] byte = 32 -> "GarbageDetected"
      [] byte = 64 -> "MotorOnFlag"
      [] OTHER -> "NoMatch"

StepTo(s) == [state |-> s, result |-> None, panic |-> FALSE]

\* a data-collecting state (DataLen*, Data1*, Data2*) built from the fields of self
DataState(self, tag, cmd, data) ==
    [st |-> tag, size |-> self.size, pid |-> self.pid, cmd |-> cmd,
     chk1 |-> self.chk1, chk2 |-> self.chk2, data |-> data]

\* the Error state built from the fields of self
ErrorState(self, cmd, payload) ==
    [st |-> "Error", size |-> self.size, pid |-> self.pid, cmd |-> cmd,
     chk1 |-> self.chk1, chk2 |-> self.chk2, payload |-> payload]

StepH1(self, byte) == StepTo(H2)

StepH2(self, byte) == StepTo(Psize)

StepPsize(self, byte) == StepTo([st |-> "Pid", size |-> byte])

StepPid(self, byte) == StepTo([st |-> "Cmd", size |-> self.size, pid |-> byte])

\* StepCmd in which a byte that is no command leaves the parser where it is
StepCmd_NoAbort(self, byte) ==
    LET command == InternalCommandOf(byte)
    IN  IF command = "NoCommand" THEN StepTo(self)
        ELSE StepTo([st |-> "Checksum1", size |-> self.size, pid |-> self.pid,
                     cmd |-> command])

StepCmd(self, byte) ==
    LET command == InternalCommandOf(byte)
    IN  IF command = "NoCommand" THEN StepTo(H1)
        ELSE StepTo([st |-> "Checksum1", size |-> self.size, pid |-> self.pid,
                     cmd |-> command])

StepChecksum1(self, byte) ==
    StepTo([st |-> "Checksum2", size |-> self.size, pid |-> self.pid,
            cmd |-> self.cmd, chk1 |-> byte])

\* StepChecksum2 in which every command skips to the Error state
StepChecksum2_NoDataAddr(self, byte) ==
    StepTo([st |-> "Error", size |-> self.size, pid |-> self.pid,
            cmd |-> self.cmd, chk1 |-> self.chk1, chk2 |-> byte,
            payload |-> Nothing])

StepChecksum2(self, byte) ==
    IF self.cmd = "EEPRead" \/ self.cmd = "RamRead"
    THEN StepTo([st |-> "DataAddr", size |-> self.size, pid |-> self.pid,
                 cmd |-> self.cmd, chk1 |-> self.chk1, chk2 |-> byte])
    ELSE StepTo([st |-> "Error", size |-> self.size, pid |-> self.pid,
                 cmd |-> self.cmd, chk1 |-> self.chk1, chk2 |-> byte,
                 payload |-> Nothing])

\* the outcome of the DataAddr arm for the result of try_from: the arms of the
\* `match` are Ok(data_addr) and Err(_); a byte for which try_from has no arm
\* gives neither, and the step does not complete
AfterLookup(self, data_addr, tag) ==
    IF IsOk(data_addr)
    THEN StepTo(DataState(self, tag, self.cmd,
                  [addr |-> data_addr, data_len |-> 0, data |-> <<0, 0>>]))
    ELSE IF data_addr = InvalidAddress THEN StepTo(H1)
    ELSE [state |-> self, result |-> None, panic |-> TRUE]

StepDataAddr(self, byte) ==
    CASE self.cmd = "EEPRead" ->
           AfterLookup(self, ReadableEEPAddr_try_from(byte), "DataLenEEP")
      [] self.cmd = "RamRead" ->
           AfterLookup(self, ReadableRamAddr_try_from(byte), "DataLenRAM")
      [] OTHER -> [state |-> self, result |-> None, panic |-> TRUE]

StepDataLenEEP(self, byte) ==
    StepTo(DataState(self, "Data1EEP", self.cmd,
             [addr |-> self.data.addr, data_len |-> byte, data |-> <<0, 0>>]))

StepDataLenRAM(self, byte) ==
    StepTo(DataState(self, "Data1RAM", self.cmd,
             [addr |-> self.data.addr, data_len |-> byte, data |-> <<0, 0>>]))

StepData1EEP(self, byte) ==
    LET new_data == [addr |-> self.data.addr, data_len |-> self.data.data_len,
                     data |-> <<byte, 0>>]
    IN  IF self.data.data_len = 2
        THEN StepTo(DataState(self, "Data2EEP", "EEPRead", new_data))
        ELSE StepTo(ErrorState(self, "EEPRead", [kind |-> "EEP", data |-> new_data]))

\* StepData2EEP with the second data byte stored in the first slot
StepData2EEP_Slot0(self, byte) ==
    LET new_data == [addr |-> self.data.addr, data_len |-> self.data.data_len,
                     data |-> <<byte, self.data.data[2]>>]
    IN  StepTo(ErrorState(self, self.cmd, [kind |-> "EEP", data |-> new_data]))

StepData2EEP(self, byte) ==
    LET new_data == [addr |-> self.data.addr, data_len |-> self.data.data_len,
                     data |-> <<self.data.data[1], byte>>]
    IN  StepTo(ErrorState(self, self.cmd, [kind |-> "EEP", data |-> new_data]))

\* StepData1RAM handing a one-byte read over with an EEP payload
StepData1RAM_EEPPayload(self, byte) ==
    LET new_data == [addr |-> self.data.addr, data_len |-> self.data.data_len,
                     data |-> <<byte, 0>>]
    IN  IF self.data.data_len = 2
        THEN StepTo(DataState(self, "Data2RAM", "RamRead", new_data))
        ELSE StepTo(ErrorState(self, "RamRead", [kind |-> "EEP", data |-> new_data]))

StepData1RAM(self, byte) ==
    LET new_data == [addr |-> self.data.addr, data_len |-> self.data.data_len,
                     data |-> <<byte, 0>>]
    IN  IF self.data.data_len = 2
        THEN StepTo(DataState(self, "Data2RAM", "RamRead", new_data))
        ELSE StepTo(ErrorState(self, "RamRead", [kind |-> "Ram", data |-> new_data]))

StepData2RAM(self, byte) ==
    LET new_data == [addr |-> self.data.addr, data_len |-> self.data.data_len,
                     data |-> <<self.data.data[1], byte>>]
    IN  StepTo(ErrorState(self, self.cmd, [kind |-> "Ram", data |-> new_data]))

\* StepError in which a byte that is no status error leaves the parser in Error
StepError_NoAbort(self, byte) ==
    LET status_error == StatusErrorOf(byte)
    IN  IF status_error = "NoMatch" THEN StepTo(self)
        ELSE StepTo([st |-> "Detail", size |-> self.size, pid |-> self.pid,
                     cmd |-> self.cmd, chk1 |-> self.chk1, chk2 |-> self.chk2,
                     payload |-> self.payload, status_error |-> status_error])

StepError(self, byte) ==
    LET status_error == StatusErrorOf(byte)
    IN  IF status_error = "NoMatch" THEN StepTo(H1)
        ELSE StepTo([st |-> "Detail", size |-> self.size, pid |-> self.pid,
                     cmd |-> self.cmd, chk1 |-> self.chk1, chk2 |-> self.chk2,
                     payload |-> self.payload, status_error |-> status_error])

\* StepDetail without the final `*self = H1` after a packet was returned
StepDetail_NoReset(self, byte) ==
    LET status_detail == StatusDetailOf(byte)
    IN  IF status_detail = "NoMatch" THEN StepTo(H1)
        ELSE LET r == add_to_buffer(self.size, self.pid, self.cmd, self.chk1,
                                    self.chk2, self.payload, self.status_error,
                                    status_detail)
             IN  IF r.panic THEN [state |-> self, result |-> None, panic |-> TRUE]
                 ELSE [state |-> IF r.result.some THEN self ELSE H1,
                       result |-> r.result, panic |-> FALSE]

StepDetail(self, byte) ==
    LET status_detail == StatusDetailOf(byte)
    IN  IF status_detail = "NoMatch" THEN StepTo(H1)
        ELSE LET r == add_to_buffer(self.size, self.pid, self.cmd, self.chk1,
                                    self.chk2, self.payload, self.status_error,
                                    status_detail)
             IN  IF r.panic THEN [state |-> self, result |-> None, panic |-> TRUE]
                 ELSE [state |-> H1, result |-> r.result, panic |-> FALSE]

\* ReaderState::step: the new state, the returned Option<ACKPacket>, and
\* whether the call panicked (the state is then left as it was)
step(self, byte) ==
    CASE self.st = "H1"         -> StepH1(self, byte)
      [] self.st = "H2"         -> StepH2(self, byte)
      [] self.st = "Psize"      -> StepPsize(self, byte)
      [] self.st = "Pid"        -> StepPid(self, byte)
      [] self.st = "Cmd"        -> StepCmd(self, byte)
      [] self.st = "Checksum1"  -> StepChecksum1(self, byte)
      [] self.st = "Checksum2"  -> StepChecksum2(self, byte)
      [] self.st = "DataAddr"   -> StepDataAddr(self, byte)
      [] self.st = "DataLenEEP" -> StepDataLenEEP(self, byte)
      [] self.st = "DataLenRAM" -> StepDataLenRAM(self, byte)
      [] self.st = "Data1EEP"   -> StepData1EEP(self, byte)
      [] self.st = "Data2EEP"   -> StepData2EEP(self, byte)
      [] self.st = "Data1RAM"   -> StepData1RAM(self, byte)
      [] self.st = "Data2RAM"   -> StepData2RAM(self, byte)
      [] self.st = "Error"      -> StepError(self, byte)
      [] self.st = "Detail"     -> StepDetail(self, byte)

(***************************************************************************)
(* ACKReader: new, parse, pop_ack_packet, available_messages.              *)
(***************************************************************************)
\* ArrayVec::push on the buffer: panics when the vector is already full
ArrayVec_push(buf, trame) ==
    IF Len(buf) >= TRAME_READER_INTERNAL_BUFFER_SIZE
    THEN [panic |-> TRUE, buffer |-> buf]
    ELSE [panic |-> FALSE, buffer |-> Append(buf, trame)]

\* a pop that returns the last element and leaves it in the vector
ArrayVec_pop_Keep(buf) ==
    IF buf = <<>> THEN [result |-> None, buffer |-> buf]
    ELSE [result |-> Some(buf[Len(buf)]), buffer |-> buf]

\* ArrayVec::pop: removes and returns the last element
ArrayVec_pop(buf) ==
    IF buf = <<>> THEN [result |-> None, buffer |-> buf]
    ELSE [result |-> Some(buf[Len(buf)]), buffer |-> SubSeq(buf, 1, Len(buf) - 1)]

\* the loop of ACKReader::parse over the bytes of buf
RECURSIVE ParseLoop(_, _, _)
ParseLoop(s, b, buf) ==
    IF buf = <<>> THEN [state |-> s, buffer |-> b, panic |-> FALSE]
    ELSE LET r == step(s, Head(buf))
         IN  IF r.panic THEN [state |-> r.state, buffer |-> b, panic |-> TRUE]
             ELSE IF r.result.some
                  THEN LET p == ArrayVec_push(b, r.result.val)
                       IN  IF p.panic
                           THEN [state |-> r.state, buffer |-> b, panic |-> TRUE]
                           ELSE ParseLoop(r.state, p.buffer, Tail(buf))
                  ELSE ParseLoop(r.state, b, Tail(buf))

(***************************************************************************)
(* Acknowledgement frames put on the wire, as in test_eepread,             *)
(* test_ramread and test_sjog: header, size, id, opcode, two checksums,    *)
(* read payload, status error, status detail.                              *)
(***************************************************************************)
ReadCmds == {"EEPRead", "RamRead"}

NonReadCmds == {"EEPWrite", "RamWrite", "IJog", "SJog", "Stat", "Rollback", "Reboot"}

StatusBytes == {0, 1, 2, 4, 8, 16, 32, 64}

RECURSIVE XorFold(_, _)
XorFold(acc, bytes) ==
    IF bytes = <<>> THEN acc ELSE XorFold(Xor(acc, Head(bytes)), Tail(bytes))

\* a frame parameter: p.cmd, p.id, p.err, p.det and, for reads, p.addr, p.len, p.data
NoRead(cmd, id, err, det) ==
    [cmd |-> cmd, id |-> id, err |-> err, det |-> det,
     addr |-> 0, len |-> 0, data |-> <<>>]

Read(cmd, id, addr, data, err, det) ==
    [cmd |-> cmd, id |-> id, err |-> err, det |-> det,
     addr |-> addr, len |-> Len(data), data |-> data]

AckPayload(p) ==
    IF p.cmd \in ReadCmds THEN <<p.addr, p.len>> \o p.data ELSE <<>>

AckSize(p) == 7 + Len(AckPayload(p)) + 2

AckOpcode(p) == Command_into_u8([kind |-> p.cmd])

AckChk1(p) == AndFE(XorFold(Xor(Xor(AckSize(p), p.id), AckOpcode(p)), AckPayload(p)))

AckChk2(p) == AndFE(Not(AckChk1(p)))

AckFrame(p) ==
    <<255, 255, AckSize(p), p.id, AckOpcode(p), AckChk1(p), AckChk2(p)>>
      \o AckPayload(p) \o <<p.err, p.det>>

\* the frame of p with `size` in its size byte and both checksums computed over
\* that size byte
SizedFrame(p, size) ==
    LET chk1 == AndFE(XorFold(Xor(Xor(size, p.id), AckOpcode(p)), AckPayload(p)))
    IN  <<255, 255, size, p.id, AckOpcode(p), chk1, AndFE(Not(chk1))>>
          \o AckPayload(p) \o <<p.err, p.det>>

RECURSIVE AckFrames(_)
AckFrames(ps) ==
    IF ps = <<>> THEN <<>> ELSE AckFrame(Head(ps)) \o AckFrames(Tail(ps))

\* bytes with the byte at index pos replaced by val
Substitute(bytes, pos, val) ==
    [i \in 1..Len(bytes) |-> IF i = pos THEN val ELSE bytes[i]]

\* no substitution: sub.frame = 0
NoSub == [frame |-> 0, pos |-> 0, val |-> 0]

Sub(frame, pos, val) == [frame |-> frame, pos |-> pos, val |-> val]

\* a scenario: noise, then s.frames one after the other, the whole series
\* s.repeat times; frame s.sub.frame has its byte s.sub.pos replaced
Scenario(noise, frames, sub) ==
    [noise |-> noise, frames |-> frames, sub |-> sub, repeat |-> 1]

Repeated(frame, times) ==
    [noise |-> <<>>, frames |-> <<frame>>, sub |-> NoSub, repeat |-> times]

NumFrames(s) == Len(s.frames) * s.repeat

FrameAt(s, k) == s.frames[((k - 1) % Len(s.frames)) + 1]

\* the bytes of frames k.. of scenario s
RECURSIVE FramesFrom(_, _)
FramesFrom(s, k) ==
    IF k > NumFrames(s) THEN <<>>
    ELSE (IF k = s.sub.frame
          THEN Substitute(AckFrame(FrameAt(s, k)), s.sub.pos, s.sub.val)
          ELSE AckFrame(FrameAt(s, k))) \o FramesFrom(s, k + 1)

\* the bytes of a scenario
Input(s) == s.noise \o FramesFrom(s, 1)

(***************************************************************************)
(* Actions.                                                                *)
(***************************************************************************)
MaxChunk == 13

MaxPops == 4

Unit == [kind |-> "unit"]

\* `builder` is the builder the program holds, if it holds one
NoBuilder == [kind |-> "None"]

\* `servo` is the Servo the program holds, if it holds one
NoServo == [kind |-> "None"]

\* ACKReader::new and the bytes that will arrive
Fresh(scenarios) ==
    /\ scn \in scenarios
    /\ wire = Input(scn)
    /\ state = H1
    /\ buffer = <<>>
    /\ panicked = FALSE
    /\ ret = Unit
    /\ pops = 0
    /\ accepted = 0
    /\ builder = NoBuilder
    /\ servo = NoServo

\* parse in which every call starts again from state H1
parse_FromH1(n) ==
    /\ ~panicked
    /\ n \in 1..Len(wire)
    /\ LET r == ParseLoop(H1, buffer, SubSeq(wire, 1, n))
       IN  /\ state' = r.state
           /\ buffer' = r.buffer
           /\ panicked' = r.panic
           /\ accepted' = accepted + Len(r.buffer) - Len(buffer)
    /\ wire' = SubSeq(wire, n + 1, Len(wire))
    /\ ret' = Unit
    /\ UNCHANGED <<scn, pops, builder, servo>>

\* one call parse(buf) with buf the next n bytes of the wire
parse(n) ==
    /\ ~panicked
    /\ n \in 1..Len(wire)
    /\ LET r == ParseLoop(state, buffer, SubSeq(wire, 1, n))
       IN  /\ state' = r.state
           /\ buffer' = r.buffer
           /\ panicked' = r.panic
           /\ accepted' = accepted + Len(r.buffer) - Len(buffer)
    /\ wire' = SubSeq(wire, n + 1, Len(wire))
    /\ ret' = Unit
    /\ UNCHANGED <<scn, pops, builder, servo>>

\* pop_ack_packet that also puts the parser back in H1
pop_ack_packet_Resets ==
    /\ ~panicked
    /\ buffer = <<>> \/ pops < MaxPops
    /\ LET r == ArrayVec_pop(buffer)
       IN  /\ buffer' = r.buffer
           /\ ret' = [kind |-> "option", opt |-> r.result]
           /\ pops' = IF r.result.some THEN pops + 1 ELSE pops
    /\ state' = H1
    /\ UNCHANGED <<panicked, wire, scn, accepted, builder, servo>>

pop_ack_packet ==
    /\ ~panicked
    /\ buffer = <<>> \/ pops < MaxPops
    /\ LET r == ArrayVec_pop(buffer)
       IN  /\ buffer' = r.buffer
           /\ ret' = [kind |-> "option", opt |-> r.result]
           /\ pops' = IF r.result.some THEN pops + 1 ELSE pops
    /\ UNCHANGED <<state, panicked, wire, scn, accepted, builder, servo>>

available_messages ==
    /\ ~panicked
    /\ ret' = [kind |-> "usize", val |-> Len(buffer)]
    /\ UNCHANGED <<state, buffer, panicked, wire, scn, pops, accepted, builder, servo>>

Next ==
    \/ \E n \in 1..MaxChunk : parse(n)
    \/ pop_ack_packet
    \/ available_messages

(***************************************************************************)
(* The frame encoder (builder.rs) and the requests it encodes (message.rs, *)
(* the writable registers of addr.rs).                                     *)
(***************************************************************************)
\* the enum WritableRamAddr: how many u8 each variant carries
WritableRamAddr_fields ==
    [ID |-> 1, AckPolicy |-> 1, AlarmLEDPolicy |-> 1, TorquePolicy |-> 1, 
     MaxTemperature |-> 1, MinVoltage |-> 1, MaxVoltage |-> 1, 
     AccelerationRatio |-> 1, MaxAcceleration |-> 1, DeadZone |-> 1, 
     SaturatorOffset |-> 1, SaturatorSlope |-> 2, PWMOffset |-> 1, 
     MinPWM |-> 1, MaxPWM |-> 2, OverloadPWMThreshold |-> 2, 
     MinPosition |-> 2, MaxPosition |-> 2, PositionKp |-> 2, 
     PositionKd |-> 2, PositionKi |-> 2, PositionFFFirstGain |-> 2, 
     PositionFFSecondGain |-> 2, LedBlinkPeriod |-> 1, 
     ADCFaultDetectionPeriod |-> 1, PacketGarbageDetectionPeriod |-> 1, 
     StopDetectionPeriod |-> 1, OverloadDetectionPeriod |-> 1, 
     StopThreshold |-> 1, InpositionMargin |-> 1, 
     CalibrationDifference |-> 1, StatusError |-> 1, StatusDetail |-> 1, 
     TorqueControl |-> 1, LEDControl |-> 1]

\* WritableRamAddr::bytes
WritableRamAddr_bytes ==
    [ID |-> 1, AckPolicy |-> 1, AlarmLEDPolicy |-> 1, TorquePolicy |-> 1, 
     MaxTemperature |-> 1, MinVoltage |-> 1, MaxVoltage |-> 1, 
     AccelerationRatio |-> 1, MaxAcceleration |-> 1, DeadZone |-> 1, 
     SaturatorOffset |-> 1, SaturatorSlope |-> 2, PWMOffset |-> 1, 
     MinPWM |-> 1, MaxPWM |-> 2, OverloadPWMThreshold |-> 2, 
     MinPosition |-> 2, MaxPosition |-> 2, PositionKp |-> 2, 
     PositionKd |-> 2, PositionKi |-> 2, PositionFFFirstGain |-> 2, 
     PositionFFSecondGain |-> 2, LedBlinkPeriod |-> 1, 
     ADCFaultDetectionPeriod |-> 1, PacketGarbageDetectionPeriod |-> 1, 
     StopDetectionPeriod |-> 1, OverloadDetectionPeriod |-> 1, 
     StopThreshold |-> 1, InpositionMargin |-> 1, 
     CalibrationDifference |-> 1, StatusError |-> 1, StatusDetail |-> 1, 
     TorqueControl |-> 1, LEDControl |-> 1]

\* From<WritableRamAddr> for u8
WritableRamAddr_into_u8 ==
    [ID |-> 0, AckPolicy |-> 1, AlarmLEDPolicy |-> 2, TorquePolicy |-> 3, 
     MaxTemperature |-> 5, MinVoltage |-> 6, MaxVoltage |-> 7, 
     AccelerationRatio |-> 8, MaxAcceleration |-> 9, DeadZone |-> 10, 
     SaturatorOffset |-> 11, SaturatorSlope |-> 12, PWMOffset |-> 14, 
     MinPWM |-> 15, MaxPWM |-> 16, OverloadPWMThreshold |-> 18, 
     MinPosition |-> 20, MaxPosition |-> 22, PositionKp |-> 24, 
     PositionKd |-> 26, PositionKi |-> 28, PositionFFFirstGain |-> 30, 
     PositionFFSecondGain |-> 32, LedBlinkPeriod |-> 38, 
     ADCFaultDetectionPeriod |-> 39, PacketGarbageDetectionPeriod |-> 40, 
     StopDetectionPeriod |-> 41, OverloadDetectionPeriod |-> 42, 
     StopThreshold |-> 43, InpositionMargin |-> 44, 
     CalibrationDifference |-> 47, StatusError |-> 48, StatusDetail |-> 49, 
     TorqueControl |-> 52, LEDControl |-> 53]

\* the enum WritableEEPAddr: how many u8 each variant carries
WritableEEPAddr_fields ==
    [BaudRate |-> 1, ID |-> 1, AckPolicy |-> 1, AlarmLEDPolicy |-> 1, 
     TorquePolicy |-> 1, MaxTemperature |-> 1, MinVoltage |-> 1, 
     MaxVoltage |-> 1, AccelerationRatio |-> 1, MaxAccelerationTime |-> 1, 
     DeadZone |-> 1, SaturatorOffset |-> 1, SaturatorSlope |-> 2, 
     PWMOffset |-> 1, MinPWM |-> 1, MaxPWM |-> 2, 
     OverloadPWMThreshold |-> 2, MinPosition |-> 2, MaxPosition |-> 2, 
     PositionKp |-> 2, PositionKd |-> 2, PositionKi |-> 2, 
     PositionFFFirstGain |-> 2, PositionFFSecondGain |-> 2, 
     LedBlinkPeriod |-> 1, ADCFaultCheckPeriod |-> 1, 
     PacketGarbageDetectionPeriod |-> 1, StopDetectionPeriod |-> 1, 
     OverloadDetectionPeriod |-> 1, StopThreshold |-> 1, 
     InpositionMargin |-> 1, CalibrationDifference |-> 1]

\* WritableEEPAddr::bytes
WritableEEPAddr_bytes ==
    [BaudRate |-> 1, ID |-> 1, AckPolicy |-> 1, AlarmLEDPolicy |-> 1, 
     TorquePolicy |-> 1, MaxTemperature |-> 1, MinVoltage |-> 1, 
     MaxVoltage |-> 1, AccelerationRatio |-> 1, MaxAccelerationTime |-> 1, 
     DeadZone |-> 1, SaturatorOffset |-> 1, SaturatorSlope |-> 2, 
     PWMOffset |-> 1, MinPWM |-> 1, MaxPWM |-> 2, 
     OverloadPWMThreshold |-> 2, MinPosition |-> 2, MaxPosition |-> 2, 
     PositionKp |-> 2, PositionKd |-> 2, PositionKi |-> 2, 
     PositionFFFirstGain |-> 2, PositionFFSecondGain |-> 2, 
     LedBlinkPeriod |-> 1, ADCFaultCheckPeriod |-> 1, 
     PacketGarbageDetectionPeriod |-> 1, StopDetectionPeriod |-> 1, 
     OverloadDetectionPeriod |-> 1, StopThreshold |-> 1, 
     InpositionMargin |-> 1, CalibrationDifference |-> 1]

\* From<WritableEEPAddr> for u8
WritableEEPAddr_into_u8 ==
    [BaudRate |-> 4, ID |-> 6, AckPolicy |-> 7, AlarmLEDPolicy |-> 8, 
     TorquePolicy |-> 9, MaxTemperature |-> 11, MinVoltage |-> 12, 
     MaxVoltage |-> 13, AccelerationRatio |-> 14, 
     MaxAccelerationTime |-> 15, DeadZone |-> 16, SaturatorOffset |-> 17, 
     SaturatorSlope |-> 18, PWMOffset |-> 20, MinPWM |-> 21, MaxPWM |-> 22, 
     OverloadPWMThreshold |-> 24, MinPosition |-> 26, MaxPosition |-> 28, 
     PositionKp |-> 30, PositionKd |-> 32, PositionKi |-> 34, 
     PositionFFFirstGain |-> 36, PositionFFSecondGain |-> 38, 
     LedBlinkPeriod |-> 44, ADCFaultCheckPeriod |-> 45, 
     PacketGarbageDetectionPeriod |-> 46, StopDetectionPeriod |-> 47, 
     OverloadDetectionPeriod |-> 48, StopThreshold |-> 49, 
     InpositionMargin |-> 50, CalibrationDifference |-> 53]

\* a writable register: the variant and the u8 it carries
Writable(name, d) == [name |-> name, d |-> d]

\* associated_data that never gives a second byte
associated_data_FirstOnly(addr) == <<addr.d[1], None>>

\* WritableRamAddr::associated_data and WritableEEPAddr::associated_data
associated_data(addr) ==
    IF Len(addr.d) = 2 THEN <<addr.d[1], Some(addr.d[2])>>
    ELSE <<addr.d[1], None>>

\* JogMode::associated_data, a u16
JogMode_associated_data(mode) ==
    IF mode.kind = "Normal" THEN mode.position
    ELSE IF mode.rotation = "Clockwise"
         THEN (IF (mode.speed \div 16384) % 2 = 1 THEN mode.speed
               ELSE mode.speed + 16384)
         ELSE mode.speed

Normal(position) == [kind |-> "Normal", position |-> position]

Continuous(speed, rotation) ==
    [kind |-> "Continuous", speed |-> speed, rotation |-> rotation]

\* SJogData::new
SJogData_new(mode, color, id) == [mode |-> mode, color |-> color, id |-> id]

\* IJogData::new
IJogData_new(mode, color, playtime, id) ==
    [mode |-> mode, color |-> color, id |-> id, playtime |-> playtime]

\* the length of Packet.data
PACKET_DATA_LEN == 16

\* the capacity of the entry list of SJogRequest and of IJogRequest
JOG_CAPACITY == 10

\* Packet::default, with the flag of a panic raised while it was filled
Packet_default ==
    [pid |-> 0, cmd |-> 0, data |-> [i \in 1..PACKET_DATA_LEN |-> 0],
     data_size |-> 0, panic |-> FALSE]

\* Packet::push_data: the indexing panics past the end of the array
push_data(self, data) ==
    IF self.panic THEN self
    ELSE IF self.data_size >= PACKET_DATA_LEN THEN [self EXCEPT !.panic = TRUE]
    ELSE [self EXCEPT !.data[self.data_size + 1] = data, !.data_size = @ + 1]

RECURSIVE push_all(_, _)
push_all(self, bytes) ==
    IF bytes = <<>> THEN self
    ELSE push_all(push_data(self, Head(bytes)), Tail(bytes))

\* insert that appends the element whatever the index
ArrayVec_insert_End(v, index, element) == v \o <<element>>

\* ArrayVec::insert(index, element), index counted from 0
ArrayVec_insert(v, index, element) ==
    SubSeq(v, 1, index) \o <<element>> \o SubSeq(v, index + 1, Len(v))

\* Packet::build without the masks of the checksums
Packet_build_NoMask(self) ==
    LET size == self.data_size + 7
        pushed == <<255, 255, size, self.pid, self.cmd>>
                    \o SubSeq(self.data, 1, self.data_size)
        checksum1 == XorSlice(Xor(Xor(size, self.pid), self.cmd),
                              self.data, self.data_size)
        checksum2 == Not(checksum1)
    IN  ArrayVec_insert(ArrayVec_insert(pushed, 5, checksum1), 6, checksum2)

\* Packet::build
Packet_build(self) ==
    LET size == self.data_size + 7
        pushed == <<255, 255, size, self.pid, self.cmd>>
                    \o SubSeq(self.data, 1, self.data_size)
        checksum1 == AndFE(XorSlice(Xor(Xor(size, self.pid), self.cmd),
                                    self.data, self.data_size))
        checksum2 == AndFE(Not(checksum1))
    IN  ArrayVec_insert(ArrayVec_insert(pushed, 5, checksum1), 6, checksum2)

\* what a build() gives: the frame, or a panic while the packet was filled
Built(packet) ==
    IF packet.panic THEN [panic |-> TRUE, message |-> <<>>]
    ELSE [panic |-> FALSE, message |-> Packet_build(packet)]

\* MessageBuilderMem::build
MessageBuilderMem_build(self) ==
    LET cmd == CASE self.addr.kind = "EEPWrite" -> 1
                 [] self.addr.kind = "EEPRead"  -> 2
                 [] self.addr.kind = "RamWrite" -> 3
                 [] self.addr.kind = "RamRead"  -> 4
        packet == [Packet_default EXCEPT !.pid = self.pid, !.cmd = cmd]
        addr == self.addr.addr
        written(into) ==
            LET p2 == push_data(push_data(packet, into), self.size)
                d == associated_data(addr)
                p3 == push_data(p2, d[1])
            IN  IF d[2].some THEN push_data(p3, d[2].val) ELSE p3
    IN  Built(CASE self.addr.kind = "EEPWrite" ->
                     written(WritableEEPAddr_into_u8[addr.name])
                [] self.addr.kind = "RamWrite" ->
                     written(WritableRamAddr_into_u8[addr.name])
                [] self.addr.kind = "EEPRead" ->
                     push_data(push_data(packet, ReadableEEPAddr_into_u8[addr]),
                               self.size)
                [] self.addr.kind = "RamRead" ->
                     push_data(push_data(packet, ReadableRamAddr_into_u8[addr]),
                               self.size))

\* MessageBuilderSpecial::build
MessageBuilderSpecial_build(self) ==
    LET cmd == CASE self.req.kind = "Stat"     -> 7
                 [] self.req.kind = "Rollback" -> 8
                 [] self.req.kind = "Reboot"   -> 9
        packet == [Packet_default EXCEPT !.pid = self.pid, !.cmd = cmd]
    IN  Built(IF self.req.kind = "Rollback"
              THEN push_data(push_data(packet, self.req.skip_id),
                             self.req.skip_baud)
              ELSE packet)

\* the set byte without the bit of the speed mode
JogSet_NoModeBit(data) ==
    CASE data.color = "Blue"  -> 8
      [] data.color = "Green" -> 4
      [] data.color = "Red"   -> 16

\* the `set` byte of a jog entry
JogSet(data) ==
    (IF data.mode.kind = "Normal" THEN 0 ELSE 2)
      + (CASE data.color = "Blue"  -> 8
           [] data.color = "Green" -> 4
           [] data.color = "Red"   -> 16)

\* the bytes one pass of the loop of MessageBuilderPositionSJOG::build pushes
SJogBytes(data) ==
    LET d == JogMode_associated_data(data.mode)
    IN  <<d % 256, (d \div 256) % 256, JogSet(data), data.id>>

\* the bytes of an incremental entry with its playtime pushed first
IJogBytes_PlaytimeFirst(data) == <<data.playtime>> \o SJogBytes(data)

\* the bytes one pass of the loop of MessageBuilderPositionIJOG::build pushes
IJogBytes(data) == SJogBytes(data) \o <<data.playtime>>

\* the loop `for data in self.pos.data` of MessageBuilderPositionSJOG::build
RECURSIVE push_sjog(_, _)
push_sjog(packet, entries) ==
    IF entries = <<>> THEN packet
    ELSE push_sjog(push_all(packet, SJogBytes(Head(entries))), Tail(entries))

\* the loop `for data in self.pos` of MessageBuilderPositionIJOG::build
RECURSIVE push_ijog(_, _)
push_ijog(packet, entries) ==
    IF entries = <<>> THEN packet
    ELSE push_ijog(push_all(packet, IJogBytes(Head(entries))), Tail(entries))

\* MessageBuilderPositionSJOG::build
MessageBuilderPositionSJOG_build(self) ==
    LET packet == [Packet_default EXCEPT !.pid = self.pid, !.cmd = 6]
    IN  Built(push_sjog(push_data(packet, self.pos.playtime), self.pos.data))

\* MessageBuilderPositionIJOG::build
MessageBuilderPositionIJOG_build(self) ==
    LET packet == [Packet_default EXCEPT !.pid = self.pid, !.cmd = 5]
    IN  Built(push_ijog(packet, self.pos))

\* what the encoder is called with
BuilderIds == {0, 253, 254}

ReadSizes == {None, Some(0), Some(1), Some(2), Some(255)}

WriteValues == {0, 1, 254}

WritableValues(fields) ==
    {Writable(n, <<d>>) : n \in {m \in DOMAIN fields : fields[m] = 1}, d \in WriteValues}
    \cup {Writable(n, <<d, d2>>) : n \in {m \in DOMAIN fields : fields[m] = 2},
                                   d \in WriteValues, d2 \in WriteValues}

\* playtime, mode and colour of the first entry of a jog builder
JogRequests ==
    {<<0, Normal(0), "Green">>, <<60, Normal(1023), "Red">>,
     <<1, Normal(512), "Blue">>, <<254, Continuous(1023, "Clockwise"), "Blue">>,
     <<60, Continuous(300, "CounterClockwise"), "Green">>}

\* the modes of the entries appended to a jog builder
MoreModes == {Normal(1), Continuous(257, "Clockwise")}

\* MessageBuilder::new
MessageBuilder_new ==
    /\ ~panicked
    /\ builder' = [kind |-> "MessageBuilder"]
    /\ ret' = Unit
    /\ UNCHANGED <<state, buffer, panicked, wire, scn, pops, accepted, servo>>

\* MessageBuilder::new_with_id
new_with_id(id) ==
    /\ ~panicked
    /\ builder' = [kind |-> "Cmd", pid |-> id]
    /\ ret' = Unit
    /\ UNCHANGED <<state, buffer, panicked, wire, scn, pops, accepted, servo>>

\* MessageBuilder::id
MessageBuilder_id(id) ==
    /\ ~panicked
    /\ builder.kind = "MessageBuilder"
    /\ builder' = [kind |-> "Cmd", pid |-> id]
    /\ ret' = Unit
    /\ UNCHANGED <<state, buffer, panicked, wire, scn, pops, accepted, servo>>

\* a method of MessageBuilderCmd that gives the builder `next`
CmdTo(next) ==
    /\ ~panicked
    /\ builder.kind = "Cmd"
    /\ builder' = next
    /\ ret' = Unit
    /\ UNCHANGED <<state, buffer, panicked, wire, scn, pops, accepted, servo>>

Mem(pid, kind, addr, size) ==
    [kind |-> "Mem", pid |-> pid, addr |-> [kind |-> kind, addr |-> addr],
     size |-> size]

\* read_ram that ignores the length it is given
read_ram_DeclaredWidth(ram_addr, size) ==
    CmdTo(Mem(builder.pid, "RamRead", ram_addr, ReadableRamAddr_bytes[ram_addr]))

read_ram(ram_addr, size) ==
    CmdTo(Mem(builder.pid, "RamRead", ram_addr,
              IF size.some THEN size.val ELSE ReadableRamAddr_bytes[ram_addr]))

write_ram(ram_addr) ==
    CmdTo(Mem(builder.pid, "RamWrite", ram_addr, WritableRamAddr_bytes[ram_addr.name]))

read_eep(eep_addr, size) ==
    CmdTo(Mem(builder.pid, "EEPRead", eep_addr,
              IF size.some THEN size.val ELSE ReadableEEPAddr_bytes[eep_addr]))

write_eep(eep_addr) ==
    CmdTo(Mem(builder.pid, "EEPWrite", eep_addr, WritableEEPAddr_bytes[eep_addr.name]))

Special(pid, req) == [kind |-> "Special", pid |-> pid, req |-> req]

reboot == CmdTo(Special(builder.pid, [kind |-> "Reboot"]))

\* rollback with the two flags exchanged
rollback_Swapped(flags) ==
    CmdTo(Special(builder.pid,
                  [kind |-> "Rollback",
                   skip_id |-> IF flags \in {"SkipBaud", "SkipBoth"} THEN 1 ELSE 0,
                   skip_baud |-> IF flags \in {"SkipId", "SkipBoth"} THEN 1 ELSE 0]))

rollback(flags) ==
    CmdTo(Special(builder.pid,
                  [kind |-> "Rollback",
                   skip_id |-> IF flags \in {"SkipId", "SkipBoth"} THEN 1 ELSE 0,
                   skip_baud |-> IF flags \in {"SkipBaud", "SkipBoth"} THEN 1 ELSE 0]))

stat == CmdTo(Special(builder.pid, [kind |-> "Stat"]))

\* the MessageBuilderPositionSJOG that MessageBuilderCmd::s_jog returns
SJOG(pid, playtime, mode, color, id) ==
    [kind |-> "SJOG", pid |-> pid,
     pos |-> [data |-> <<SJogData_new(mode, color, id)>>, playtime |-> playtime]]

\* MessageBuilderCmd::s_jog
s_jog(playtime, mode, color, id) ==
    CmdTo(SJOG(builder.pid, playtime, mode, color, id))

\* MessageBuilderCmd::i_jog
i_jog(playtime, mode, color, id) ==
    CmdTo([kind |-> "IJOG", pid |-> builder.pid,
           pos |-> <<IJogData_new(mode, color, playtime, id)>>])

Ok == [kind |-> "Ok"]

Err(e) == [kind |-> "Err", err |-> e]

\* s_jog overwriting the last entry of a full list and returning Ok
MessageBuilderPositionSJOG_s_jog_Overwrite(mode, color, id) ==
    /\ ~panicked
    /\ builder.kind = "SJOG"
    /\ IF Len(builder.pos.data) = JOG_CAPACITY
       THEN builder' = [builder EXCEPT
                          !.pos.data[JOG_CAPACITY] = SJogData_new(mode, color, id)]
       ELSE builder' = [builder EXCEPT
                          !.pos.data = Append(@, SJogData_new(mode, color, id))]
    /\ ret' = Ok
    /\ UNCHANGED <<state, buffer, panicked, wire, scn, pops, accepted, servo>>

\* MessageBuilderPositionSJOG::s_jog
MessageBuilderPositionSJOG_s_jog(mode, color, id) ==
    /\ ~panicked
    /\ builder.kind = "SJOG"
    /\ IF Len(builder.pos.data) = JOG_CAPACITY
       THEN /\ ret' = Err("MaximumDataReached")
            /\ UNCHANGED builder
       ELSE /\ builder' = [builder EXCEPT
                             !.pos.data = Append(@, SJogData_new(mode, color, id))]
            /\ ret' = Ok
    /\ UNCHANGED <<state, buffer, panicked, wire, scn, pops, accepted, servo>>

\* MessageBuilderPositionIJOG::s_jog
MessageBuilderPositionIJOG_s_jog(mode, color, playtime, id) ==
    /\ ~panicked
    /\ builder.kind = "IJOG"
    /\ IF Len(builder.pos) = JOG_CAPACITY
       THEN /\ ret' = Err("MaximumDataReached")
            /\ UNCHANGED builder
       ELSE /\ builder' = [builder EXCEPT
                             !.pos = Append(@, IJogData_new(mode, color, playtime, id))]
            /\ ret' = Ok
    /\ UNCHANGED <<state, buffer, panicked, wire, scn, pops, accepted, servo>>

\* a build(self): the builder is consumed, the frame comes back
BuildWith(kind, built) ==
    /\ ~panicked
    /\ builder.kind = kind
    /\ builder' = NoBuilder
    /\ panicked' = built.panic
    /\ ret' = IF built.panic THEN ret ELSE [kind |-> "message", bytes |-> built.message]
    /\ UNCHANGED <<state, buffer, wire, scn, pops, accepted, servo>>

Mem_build == BuildWith("Mem", MessageBuilderMem_build(builder))

Special_build == BuildWith("Special", MessageBuilderSpecial_build(builder))

SJOG_build == BuildWith("SJOG", MessageBuilderPositionSJOG_build(builder))

IJOG_build == BuildWith("IJOG", MessageBuilderPositionIJOG_build(builder))

NextBuilder ==
    \/ MessageBuilder_new
    \/ \E id \in BuilderIds : new_with_id(id)
    \/ \E id \in BuilderIds : MessageBuilder_id(id)
    \/ \E a \in DOMAIN ReadableRamAddr_into_u8, size \in ReadSizes : read_ram(a, size)
    \/ \E a \in WritableValues(WritableRamAddr_fields) : write_ram(a)
    \/ \E a \in DOMAIN ReadableEEPAddr_into_u8, size \in ReadSizes : read_eep(a, size)
    \/ \E a \in WritableValues(WritableEEPAddr_fields) : write_eep(a)
    \/ reboot
    \/ \E flags \in {"SkipId", "SkipBaud", "SkipBoth", "SkipNone"} : rollback(flags)
    \/ stat
    \/ \E r \in JogRequests :
          \/ s_jog(r[1], r[2], r[3], 1)
          \/ i_jog(r[1], r[2], r[3], 1)
    \/ \E mode \in MoreModes :
          \/ MessageBuilderPositionSJOG_s_jog(mode, "Blue", 2)
          \/ MessageBuilderPositionIJOG_s_jog(mode, "Blue", 60, 2)
    \/ Mem_build
    \/ Special_build
    \/ SJOG_build
    \/ IJOG_build

\* no bytes on the wire: the encoder alone
Idle == Scenario(<<>>, <<>>, NoSub)

InitBuilder == Fresh({Idle})

SpecBuilder == InitBuilder /\ [][NextBuilder]_vars

(***************************************************************************)
(* Servo (servo.rs): each method builds one frame for the servo's id.      *)
(***************************************************************************)
\* Servo::default
Servo_default ==
    /\ ~panicked
    /\ servo' = [kind |-> "Servo", id |-> 253]
    /\ ret' = Unit
    /\ UNCHANGED <<state, buffer, panicked, wire, scn, pops, accepted, builder>>

\* Servo::new
Servo_new(id) ==
    /\ ~panicked
    /\ servo' = [kind |-> "Servo", id |-> id]
    /\ ret' = Unit
    /\ UNCHANGED <<state, buffer, panicked, wire, scn, pops, accepted, builder>>

\* Servo::set_id
Servo_set_id(id) ==
    /\ ~panicked
    /\ servo.kind = "Servo"
    /\ servo' = [servo EXCEPT !.id = id]
    /\ ret' = Unit
    /\ UNCHANGED <<state, buffer, panicked, wire, scn, pops, accepted, builder>>

\* Servo::id
Servo_id ==
    /\ ~panicked
    /\ servo.kind = "Servo"
    /\ ret' = [kind |-> "u8", val |-> servo.id]
    /\ UNCHANGED <<state, buffer, panicked, wire, scn, pops, accepted, builder, servo>>

\* a method of Servo that returns what a build() gives
ServoBuilds(built) ==
    /\ ~panicked
    /\ servo.kind = "Servo"
    /\ panicked' = built.panic
    /\ ret' = IF built.panic THEN ret ELSE [kind |-> "message", bytes |-> built.message]
    /\ UNCHANGED <<state, buffer, wire, scn, pops, accepted, builder, servo>>

\* core::cmp::min
min(a, b) == IF a <= b THEN a ELSE b

Servo_reboot ==
    ServoBuilds(MessageBuilderSpecial_build(Special(servo.id, [kind |-> "Reboot"])))

Servo_set_position(position) ==
    ServoBuilds(MessageBuilderPositionSJOG_build(
                  SJOG(servo.id, 60, Normal(min(position, 1023)), "Blue", servo.id)))

\* Servo::set_speed.  The source writes JogMode::Continuous { speed } and
\* leaves out the field `rotation` of the variant: it is an input here.
Servo_set_speed(speed, rotation) ==
    ServoBuilds(MessageBuilderPositionSJOG_build(
                  SJOG(servo.id, 60, Continuous(min(speed, 1023), rotation), "Blue",
                       servo.id)))

Servo_stat ==
    ServoBuilds(MessageBuilderSpecial_build(Special(servo.id, [kind |-> "Stat"])))

Servo_ram_write(addr) ==
    ServoBuilds(MessageBuilderMem_build(
                  Mem(servo.id, "RamWrite", addr, WritableRamAddr_bytes[addr.name])))

Servo_eep_write(addr) ==
    ServoBuilds(MessageBuilderMem_build(
                  Mem(servo.id, "EEPWrite", addr, WritableEEPAddr_bytes[addr.name])))

Servo_ram_request(addr) ==
    ServoBuilds(MessageBuilderMem_build(
                  Mem(servo.id, "RamRead", addr, ReadableRamAddr_bytes[addr])))

Servo_eep_request(addr) ==
    ServoBuilds(MessageBuilderMem_build(
                  Mem(servo.id, "EEPRead", addr, ReadableEEPAddr_bytes[addr])))

Servo_enable_torque == Servo_ram_write(Writable("TorqueControl", <<96>>))

Servo_disable_torque == Servo_ram_write(Writable("TorqueControl", <<0>>))

Servo_clear_errors == Servo_ram_write(Writable("StatusError", <<0>>))

\* the u16 given to set_position and set_speed
U16Inputs == {0, 1, 255, 256, 1022, 1023, 1024, 16384, 17000, 65535}

Rotations == {"Clockwise", "CounterClockwise"}

\* the registers given to ram_write and eep_write, each with one value
ServoWrites(fields) ==
    {Writable(n, IF fields[n] = 2 THEN <<1, 254>> ELSE <<1>>) : n \in DOMAIN fields}

NextServo ==
    \/ Servo_default
    \/ \E id \in BuilderIds : Servo_new(id)
    \/ \E id \in BuilderIds : Servo_set_id(id)
    \/ Servo_id
    \/ Servo_reboot
    \/ \E position \in U16Inputs : Servo_set_position(position)
    \/ \E speed \in U16Inputs, rotation \in Rotations : Servo_set_speed(speed, rotation)
    \/ Servo_stat
    \/ \E a \in ServoWrites(WritableRamAddr_fields) : Servo_ram_write(a)
    \/ \E a \in ServoWrites(WritableEEPAddr_fields) : Servo_eep_write(a)
    \/ \E a \in DOMAIN ReadableRamAddr_into_u8 : Servo_ram_request(a)
    \/ \E a \in DOMAIN ReadableEEPAddr_into_u8 : Servo_eep_request(a)
    \/ Servo_enable_torque
    \/ Servo_disable_torque
    \/ Servo_clear_errors

InitServo == Fresh({Idle})

SpecServo == InitServo /\ [][NextServo]_vars

(***************************************************************************)
(* The address tables of the two readable spaces, called on their own.     *)
(***************************************************************************)
\* u8::from(addr) for a ReadableRamAddr or a ReadableEEPAddr
Addr_into(space, addr) ==
    /\ ~panicked
    /\ ret' = [kind |-> "into", space |-> space, addr |-> addr,
               val |-> IF space = "Ram" THEN ReadableRamAddr_into_u8[addr]
                       ELSE ReadableEEPAddr_into_u8[addr]]
    /\ UNCHANGED <<state, buffer, panicked, wire, scn, pops, accepted, builder, servo>>

\* ReadableRamAddr::try_from(byte), ReadableEEPAddr::try_from(byte)
Addr_try_from(space, byte) ==
    /\ ~panicked
    /\ ret' = [kind |-> "try_from", space |-> space, byte |-> byte,
               val |-> IF space = "Ram" THEN ReadableRamAddr_try_from(byte)
                       ELSE ReadableEEPAddr_try_from(byte)]
    /\ UNCHANGED <<state, buffer, panicked, wire, scn, pops, accepted, builder, servo>>

\* addr.bytes()
Addr_bytes(space, addr) ==
    /\ ~panicked
    /\ ret' = [kind |-> "bytes", space |-> space, addr |-> addr,
               val |-> IF space = "Ram" THEN ReadableRamAddr_bytes[addr]
                       ELSE ReadableEEPAddr_bytes[addr]]
    /\ UNCHANGED <<state, buffer, panicked, wire, scn, pops, accepted, builder, servo>>

NextLookup ==
    \/ \E a \in DOMAIN ReadableRamAddr_into_u8 : Addr_into("Ram", a)
    \/ \E a \in DOMAIN ReadableEEPAddr_into_u8 : Addr_into("EEP", a)
    \/ \E space \in {"Ram", "EEP"}, b \in 0..255 : Addr_try_from(space, b)
    \/ \E a \in DOMAIN ReadableRamAddr_into_u8 : Addr_bytes("Ram", a)
    \/ \E a \in DOMAIN ReadableEEPAddr_into_u8 : Addr_bytes("EEP", a)

InitLookup == Fresh({Idle})

SpecLookup == InitLookup /\ [][NextLookup]_vars

SJogAck == NoRead("SJog", 253, 8, 8)

StatAck == NoRead("Stat", 0, 0, 64)

RamReadAck == Read("RamRead", 253, 20, <<1>>, 16, 64)

EEPReadAck == Read("EEPRead", 253, 30, <<184, 1>>, 8, 32)

BaseFrames == {SJogAck, StatAck, RamReadAck, EEPReadAck}

SubValues == {0, 1, 2, 3, 68, 255}

MainScenarios ==
    {Scenario(<<>>, <<f, g>>, NoSub) : f \in BaseFrames, g \in BaseFrames}
    \cup {Scenario(<<>>, <<f, g>>, Sub(1, pos, v)) :
            f \in {RamReadAck, EEPReadAck}, g \in {SJogAck},
            pos \in 3..13, v \in SubValues}

Init == Fresh(MainScenarios)

Spec == Init /\ [][Next]_vars

\* noise bytes ahead of one well-formed frame
MaxNoise == 3

NoiseBytes == {0, 8, 66}

RECURSIVE SeqsUpTo(_, _)
SeqsUpTo(S, n) ==
    IF n = 0 THEN {<<>>}
    ELSE LET shorter == SeqsUpTo(S, n - 1)
         IN  shorter \cup {Append(s, x) : s \in shorter, x \in S}

NoiseScenarios ==
    {Scenario(noise, <<f>>, NoSub) :
        noise \in SeqsUpTo(NoiseBytes, MaxNoise) \ {<<>>}, f \in BaseFrames}

InitNoise == Fresh(NoiseScenarios)

SpecNoise == InitNoise /\ [][Next]_vars

\* single well-formed frames: every command, every register, every status pair
Ids == {0, 253, 255}

FewPairs == {<<0, 0>>, <<8, 32>>, <<64, 1>>}

DataSeqs == {<<1>>, <<255>>, <<184, 1>>, <<0, 255>>}

RamAddrs == {b \in 0..255 : IsOk(ReadableRamAddr_try_from(b))}

EEPAddrs == {b \in 0..255 : IsOk(ReadableEEPAddr_try_from(b))}

RoundTripFrames ==
    {NoRead(c, id, pr[1], pr[2]) : c \in NonReadCmds, id \in Ids, pr \in FewPairs}
    \cup {NoRead("Stat", 253, e, d) : e \in StatusBytes, d \in StatusBytes}
    \cup {Read("RamRead", id, 20, <<1>>, e, d) :
            id \in Ids, e \in StatusBytes, d \in {0, 64}}
    \cup {Read("EEPRead", 253, 30, <<184, 1>>, e, d) :
            e \in {0, 8}, d \in StatusBytes}
    \cup {Read("RamRead", 253, a, dt, 16, 64) : a \in RamAddrs, dt \in DataSeqs}
    \cup {Read("EEPRead", 253, a, dt, 8, 32) : a \in EEPAddrs, dt \in DataSeqs}

InitRoundTrip == Fresh({Scenario(<<>>, <<f>>, NoSub) : f \in RoundTripFrames})

SpecRoundTrip == InitRoundTrip /\ [][Next]_vars

\* one more well-formed frame than the buffer holds, back to back
BurstLen == TRAME_READER_INTERNAL_BUFFER_SIZE + 1

BurstScenarios ==
    {Repeated(StatAck, BurstLen),
     Scenario(<<>>, <<SJogAck, RamReadAck, EEPReadAck>>, NoSub)}

InitBurst == Fresh(BurstScenarios)

SpecBurst == InitBurst /\ [][Next]_vars

\* one read acknowledgement with one byte of its payload replaced
MaxMutValue == 31

MutValues == 0..MaxMutValue \cup {127, 128, 254, 255}

RamRead2Ack == Read("RamRead", 1, 2, <<0, 2>>, 0, 0)

MutFrames == {RamReadAck, EEPReadAck, RamRead2Ack}

PayloadPositions(p) == 8..(9 + p.len)

MutScenarios ==
    {Scenario(<<>>, <<f>>, Sub(1, pos, v)) :
        f \in MutFrames, pos \in 8..11, v \in MutValues}

InitMutate == Fresh({s \in MutScenarios : s.sub.pos \in PayloadPositions(s.frames[1])})

SpecMutate == InitMutate /\ [][Next]_vars

\* three frames, the middle one with a checksum byte replaced
ChkValues == {0, 1, 2, 127, 128, 254, 255}

BadChkScenarios ==
    {Scenario(<<>>, <<SJogAck, f, RamReadAck>>, Sub(2, pos, v)) :
        f \in BaseFrames, pos \in {6, 7}, v \in ChkValues}

InitBadChk == Fresh(BadChkScenarios)

SpecBadChk == InitBadChk /\ [][Next]_vars

\* one frame with its status-error or its status-detail byte replaced by any byte
StatusScenarios ==
    {Scenario(<<>>, <<f>>, Sub(1, pos, v)) :
        f \in {SJogAck, RamReadAck}, pos \in 8..12, v \in 0..255}

InitStatus ==
    Fresh({s \in StatusScenarios :
             s.sub.pos \in {Len(AckFrame(s.frames[1])) - 1, Len(AckFrame(s.frames[1]))}})

SpecStatus == InitStatus /\ [][Next]_vars

\* two frames, the first with one of its two header bytes replaced
HeaderValues == {0, 1, 127, 254, 255}

HeaderScenarios ==
    {Scenario(<<>>, <<f, SJogAck>>, Sub(1, pos, v)) :
        f \in BaseFrames, pos \in {1, 2}, v \in HeaderValues}

InitHeader == Fresh(HeaderScenarios)

SpecHeader == InitHeader /\ [][Next]_vars

\* two frames, the first with its opcode byte replaced by any byte
CmdScenarios ==
    {Scenario(<<>>, <<f, SJogAck>>, Sub(1, 5, v)) :
        f \in {StatAck, RamReadAck}, v \in 0..255}

InitCmd == Fresh(CmdScenarios)

SpecCmd == InitCmd /\ [][Next]_vars

\* a frame whose size byte is any of SizeValues, its checksums agreeing with
\* that byte, then one well-formed frame
SizeValues == {0, 7, 9, 10, 12, 13, 255}

SizeScenarios ==
    {Scenario(SizedFrame(f, size), <<g>>, NoSub) :
        f \in BaseFrames, size \in SizeValues, g \in {SJogAck, RamReadAck}}

InitSize == Fresh(SizeScenarios)

SpecSize == InitSize /\ [][Next]_vars

\* a frame cut short after 1..Len-1 bytes, then one well-formed frame
ParkedScenarios ==
    UNION {{Scenario(SubSeq(AckFrame(f), 1, k), <<g>>, NoSub) :
              g \in BaseFrames, k \in 1..(Len(AckFrame(f)) - 1)} : f \in BaseFrames}

InitParked == Fresh(ParkedScenarios)

SpecParked == InitParked /\ [][Next]_vars

(***************************************************************************)
(* Helpers of the properties below.                                        *)
(***************************************************************************)
FrameLen(p) == Len(AckFrame(p))

IsRead(p) == p.cmd \in ReadCmds

\* the data array of a decoded read: the data bytes, padded with 0 to two bytes
Padded(data) ==
    <<IF Len(data) >= 1 THEN data[1] ELSE 0, IF Len(data) >= 2 THEN data[2] ELSE 0>>

\* the register variant a wire address names in the table of the command
VariantOf(p) ==
    IF p.cmd = "EEPRead" THEN ReadableEEPAddr_try_from(p.addr)
    ELSE ReadableRamAddr_try_from(p.addr)

\* the packet a well-formed frame of parameter p stands for
Expected(p) ==
    [psize |-> AckSize(p), pid |-> p.id,
     cmd |-> IF IsRead(p)
             THEN [kind |-> p.cmd,
                   data |-> [addr |-> VariantOf(p), data_len |-> p.len,
                             data |-> Padded(p.data)]]
             ELSE [kind |-> p.cmd],
     chk1 |-> AckChk1(p), chk2 |-> AckChk2(p),
     error |-> StatusErrorOf(p.err), detail |-> StatusDetailOf(p.det)]

\* both checksum equations, over the fields of a buffered packet
ChecksumEquationsHold(pkt) ==
    LET isRead == pkt.cmd.kind \in ReadCmds
        a == IF pkt.cmd.kind = "EEPRead" THEN ReadableEEPAddr_into_u8[pkt.cmd.data.addr]
             ELSE IF pkt.cmd.kind = "RamRead"
                  THEN ReadableRamAddr_into_u8[pkt.cmd.data.addr]
                  ELSE 0
        payload == IF isRead
                   THEN <<a, pkt.cmd.data.data_len>>
                          \o SubSeq(pkt.cmd.data.data, 1, pkt.cmd.data.data_len)
                   ELSE <<>>
        c1 == AndFE(XorFold(Xor(Xor(pkt.psize, pkt.pid), Command_into_u8(pkt.cmd)),
                            payload))
    IN  /\ isRead => pkt.cmd.data.data_len <= 2
        /\ pkt.chk1 = c1
        /\ pkt.chk2 = AndFE(Not(c1))

\* the original byte that the substitution of the scenario replaces
Original == AckFrame(scn.frames[scn.sub.frame])[scn.sub.pos]

(***************************************************************************)
(* C1: whatever bytes are fed to parse from a fresh reader, no parser step *)
(* panics.                                                                 *)
(***************************************************************************)
C1_ParseNeverPanics == ~panicked

(***************************************************************************)
(* C2: every packet held in the buffer satisfies both checksum equations   *)
(* (chk1 recomputed from size, id, opcode and, for a read, the address,    *)
(* the length and the first `length` data bytes; chk2 = ~chk1 & 0xFE).     *)
(***************************************************************************)
C2_BufferedPacketsAreValid ==
    \A i \in 1..Len(buffer) : ChecksumEquationsHold(buffer[i])

\* a frame whose checksum2 byte was corrupted has gone by and only the frame
\* after it is in the buffer
C2_Witness ==
    /\ scn.sub.frame = 1
    /\ scn.sub.pos = 7
    /\ scn.sub.val # Original
    /\ wire = <<>>
    /\ pops = 0
    /\ Len(buffer) = 1

(***************************************************************************)
(* C3: the buffer is FIFO: a call of pop_ack_packet on a buffer holding    *)
(* packets returns the oldest of them, so that successive calls return the *)
(* packets in the order their frames were parsed.                          *)
(***************************************************************************)
C3_PopReturnsOldest ==
    [][(pop_ack_packet /\ buffer # <<>>) => ret'.opt = Some(Head(buffer))]_vars
(***************************************************************************)
(* C4: resync.  Noise bytes (holding no 0xFF) and then one well-formed     *)
(* frame leave exactly one packet in the buffer, the decoding of that      *)
(* frame, whatever the noise.                                              *)
(***************************************************************************)
C4_NoiseThenFrameYieldsItsPacket ==
    (wire = <<>> /\ pops = 0) =>
        (~panicked /\ buffer = <<Expected(scn.frames[1])>>)

StatusErrorBits ==
    [NoError |-> 0, ExceedInputVoltageLimit |-> 1, ExceedAllowedPOTLimit |-> 2,
     ExceedTemperatureLimit |-> 4, InvalidPacket |-> 8, OverloadDetected |-> 16,
     DriverFaultDetected |-> 32, EEPREGDistorded |-> 64]

StatusDetailBits ==
    [NoDetail |-> 0, MovingFlag |-> 1, ImpositionFlag |-> 2, ChecksumError |-> 4,
     UnknownCommand |-> 8, ExceedREGRange |-> 16, GarbageDetected |-> 32,
     MotorOnFlag |-> 64]

\* the fields of packet pkt are those frame parameter p encodes
Decodes(pkt, p) ==
    /\ pkt.pid = p.id
    /\ pkt.cmd.kind = p.cmd
    /\ Command_into_u8(pkt.cmd) = AckOpcode(p)
    /\ pkt.error \in DOMAIN StatusErrorBits
    /\ StatusErrorBits[pkt.error] = p.err
    /\ pkt.detail \in DOMAIN StatusDetailBits
    /\ StatusDetailBits[pkt.detail] = p.det
    /\ IsRead(p) =>
          /\ (IF p.cmd = "EEPRead" THEN ReadableEEPAddr_into_u8[pkt.cmd.data.addr]
              ELSE ReadableRamAddr_into_u8[pkt.cmd.data.addr]) = p.addr
          /\ pkt.cmd.data.data_len = p.len
          /\ pkt.cmd.data.data = Padded(p.data)

C6_RoundTrip ==
    (wire = <<>> /\ pops = 0) =>
        (~panicked /\ Len(buffer) = 1 /\ Decodes(buffer[1], scn.frames[1]))

\* a two-byte EEP read acknowledgement has been fed and decoded
C6_Witness ==
    /\ wire = <<>>
    /\ pops = 0
    /\ scn.frames[1].cmd = "EEPRead"
    /\ scn.frames[1].data = <<0, 255>>
    /\ Len(buffer) = 1
    /\ buffer[1].cmd.data.data = <<0, 255>>

(***************************************************************************)
(* C7: n well-formed frames fed back to back to a fresh reader, in one or  *)
(* several parse calls, leave exactly n packets in the buffer, one per     *)
(* frame and in the order of the frames, for n up to the buffer capacity.  *)
(***************************************************************************)
Consumed == Len(Input(scn)) - Len(wire)

\* how many of the frames from index k on end within the first n bytes
RECURSIVE CompleteFrames(_, _, _)
CompleteFrames(s, k, n) ==
    IF k > NumFrames(s) \/ FrameLen(FrameAt(s, k)) > n THEN 0
    ELSE 1 + CompleteFrames(s, k + 1, n - FrameLen(FrameAt(s, k)))

FramesFed == CompleteFrames(scn, 1, Consumed)

\* the length of the first k frames
RECURSIVE FramesBytes(_, _)
FramesBytes(s, k) ==
    IF k = 0 THEN 0 ELSE FramesBytes(s, k - 1) + FrameLen(FrameAt(s, k))

C7_OnePacketPerFrame ==
    (pops = 0 /\ FramesFed <= TRAME_READER_INTERNAL_BUFFER_SIZE) =>
        /\ ~panicked
        /\ Len(buffer) = FramesFed
        /\ \A i \in 1..Len(buffer) : buffer[i] = Expected(FrameAt(scn, i))
        /\ Consumed = FramesBytes(scn, FramesFed) => state = H1

\* as many frames as the buffer holds have been fed and none popped
C7_Witness ==
    /\ pops = 0
    /\ FramesFed = TRAME_READER_INTERNAL_BUFFER_SIZE
    /\ Len(buffer) = TRAME_READER_INTERNAL_BUFFER_SIZE
    /\ state = H1
(***************************************************************************)
(* C8: a structurally complete frame whose checksum1 or checksum2 byte is  *)
(* not the recomputed one is dropped silently: the buffer content is       *)
(* unchanged, nothing but () comes back from parse and nothing panics, and *)
(* the parser is back in its initial state, so that the well-formed frame  *)
(* right after it is decoded and buffered.                                 *)
(***************************************************************************)
BadFrameStart == FramesBytes(scn, scn.sub.frame - 1)

BadFrameEnd == FramesBytes(scn, scn.sub.frame)

C8_BadChecksumFrameDropped ==
    (scn.sub.frame = 2 /\ scn.sub.pos \in {6, 7} /\ scn.sub.val # Original) =>
        /\ ~panicked
        /\ ret.kind \in {"unit", "option", "usize"}
        /\ (pops = 0 /\ Consumed >= BadFrameStart /\ Consumed <= BadFrameEnd)
              => buffer = <<Expected(scn.frames[1])>>
        /\ Consumed = BadFrameEnd => state = H1
        /\ (pops = 0 /\ wire = <<>>)
              => buffer = <<Expected(scn.frames[1]), Expected(scn.frames[3])>>

\* a read acknowledgement whose checksum1 lost its bit 7 went by, the frame
\* after it has been decoded
C8_Witness ==
    /\ scn.sub.frame = 2
    /\ scn.sub.pos = 6
    /\ scn.sub.val # Original
    /\ IsRead(scn.frames[2])
    /\ wire = <<>>
    /\ pops = 0
    /\ Len(buffer) = 2
    /\ ret = Unit

(***************************************************************************)
(* C9: each of the bytes 0x00, 0x01, 0x02, 0x04, 0x08, 0x10, 0x20, 0x40 at *)
(* the status-error position decodes to its own StatusError value, and at  *)
(* the status-detail position to its own StatusDetail value; any other     *)
(* byte at either position resets the parser to its initial state and no   *)
(* packet is emitted for the frame.                                        *)
(***************************************************************************)
ErrPos == Len(AckFrame(scn.frames[1])) - 1

DetPos == Len(AckFrame(scn.frames[1]))

C9_StatusDecoding ==
    (scn.sub.frame = 1 /\ scn.sub.pos \in {ErrPos, DetPos}) =>
        /\ ~panicked
        /\ (scn.sub.val \in StatusBytes /\ wire = <<>> /\ pops = 0) =>
              /\ Len(buffer) = 1
              /\ buffer[1].error \in DOMAIN StatusErrorBits
              /\ buffer[1].detail \in DOMAIN StatusDetailBits
              /\ StatusErrorBits[buffer[1].error] =
                    (IF scn.sub.pos = ErrPos THEN scn.sub.val ELSE scn.frames[1].err)
              /\ StatusDetailBits[buffer[1].detail] =
                    (IF scn.sub.pos = DetPos THEN scn.sub.val ELSE scn.frames[1].det)
        /\ scn.sub.val \notin StatusBytes =>
              /\ buffer = <<>>
              /\ pops = 0
              /\ Consumed = scn.sub.pos => state = H1

\* the byte 0x03 at the status-error position has just been consumed
C9_Witness ==
    /\ scn.sub.frame = 1
    /\ scn.sub.pos = ErrPos
    /\ scn.sub.val = 3
    /\ Consumed = ErrPos
    /\ state = H1
    /\ buffer = <<>>

(***************************************************************************)
(* C10: every frame a build() produces carries at index 5                  *)
(* chk1 = (size ^ id ^ opcode ^ XOR of the payload bytes) & 0xFE and at    *)
(* index 6 chk2 = ~chk1 & 0xFE.                                            *)
(***************************************************************************)
FrameXor(m) == XorFold(Xor(Xor(m[3], m[4]), m[5]), SubSeq(m, 8, Len(m)))

C10_BuiltFrameChecksums ==
    ret.kind = "message" =>
        /\ Len(ret.bytes) >= 7
        /\ ret.bytes[6] = AndFE(FrameXor(ret.bytes))
        /\ ret.bytes[7] = AndFE(Not(ret.bytes[6]))

\* a register write was built whose bytes XOR to an odd value
C10_Witness ==
    /\ ret.kind = "message"
    /\ ret.bytes[5] = 3
    /\ Len(ret.bytes) = 11
    /\ FrameXor(ret.bytes) % 2 = 1

(***************************************************************************)
(* C11: every frame a build() produces is [0xFF, 0xFF, size, id, opcode,   *)
(* chk1, chk2, payload...] with id the id given to the builder, the        *)
(* payload bytes in the order they were appended, and size = payload       *)
(* length + 7 = the number of bytes of the frame.                          *)
(***************************************************************************)
RECURSIVE JogPayload(_, _)
JogPayload(entries, incremental) ==
    IF entries = <<>> THEN <<>>
    ELSE (IF incremental THEN IJogBytes(Head(entries)) ELSE SJogBytes(Head(entries)))
           \o JogPayload(Tail(entries), incremental)

\* the bytes appended for builder b, in the order of the requests
AppendedPayload(b) ==
    CASE b.kind = "Mem" ->
           (CASE b.addr.kind = "RamRead" ->
                   <<ReadableRamAddr_into_u8[b.addr.addr], b.size>>
              [] b.addr.kind = "EEPRead" ->
                   <<ReadableEEPAddr_into_u8[b.addr.addr], b.size>>
              [] b.addr.kind = "RamWrite" ->
                   <<WritableRamAddr_into_u8[b.addr.addr.name], b.size>> \o b.addr.addr.d
              [] b.addr.kind = "EEPWrite" ->
                   <<WritableEEPAddr_into_u8[b.addr.addr.name], b.size>> \o b.addr.addr.d)
      [] b.kind = "Special" ->
           (IF b.req.kind = "Rollback" THEN <<b.req.skip_id, b.req.skip_baud>> ELSE <<>>)
      [] b.kind = "SJOG" -> <<b.pos.playtime>> \o JogPayload(b.pos.data, FALSE)
      [] b.kind = "IJOG" -> JogPayload(b.pos, TRUE)

BuildKinds == {"Mem", "Special", "SJOG", "IJOG"}

\* a step that is a build() returning a frame
BuildReturns ==
    /\ builder.kind \in BuildKinds
    /\ builder' = NoBuilder
    /\ ~panicked'
    /\ ret'.kind = "message"

C11_BuiltFrameLayout ==
    [][BuildReturns =>
         LET m == ret'.bytes
         IN  /\ Len(m) = Len(AppendedPayload(builder)) + 7
             /\ m[1] = 255
             /\ m[2] = 255
             /\ m[3] = Len(m)
             /\ m[4] = builder.pid
             /\ m[5] \in 1..9
             /\ SubSeq(m, 8, Len(m)) = AppendedPayload(builder)]_vars

\* an incremental-jog frame of three entries has been built
C11_Witness ==
    /\ ret.kind = "message"
    /\ ret.bytes[5] = 5
    /\ ret.bytes[3] = 22
    /\ Len(ret.bytes) = 22
    /\ builder = NoBuilder

(***************************************************************************)
(* C12: on a synchronized-jog or incremental-jog builder that holds 10     *)
(* entries, s_jog returns MaximumDataReached and leaves the builder (its   *)
(* entries, its playtime) unchanged; with fewer than 10 entries it returns *)
(* Ok and appends exactly one entry at the end.                            *)
(***************************************************************************)
JogEntries(b) == IF b.kind = "SJOG" THEN b.pos.data ELSE b.pos

\* a step that is a call of s_jog on a jog builder
JogAppendCall ==
    /\ builder.kind \in {"SJOG", "IJOG"}
    /\ builder'.kind = builder.kind
    /\ ret'.kind \in {"Ok", "Err"}

C12_JogListBounded ==
    [][JogAppendCall =>
         IF Len(JogEntries(builder)) = 10
         THEN /\ ret' = Err("MaximumDataReached")
              /\ builder' = builder
         ELSE /\ ret' = Ok
              /\ Len(JogEntries(builder')) = Len(JogEntries(builder)) + 1
              /\ SubSeq(JogEntries(builder'), 1, Len(JogEntries(builder)))
                    = JogEntries(builder)
              /\ builder'.pid = builder.pid
              /\ builder.kind = "SJOG" => builder'.pos.playtime = builder.pos.playtime]_vars

\* an eleventh entry has been refused by a synchronized-jog builder
C12_Witness ==
    /\ builder.kind = "SJOG"
    /\ Len(builder.pos.data) = 10
    /\ ret = Err("MaximumDataReached")

(***************************************************************************)
(* C13: build() of a synchronized-jog or incremental-jog builder holding n *)
(* entries, 1 <= n <= 10, does not panic and returns a frame holding all n *)
(* entries: a payload of 1 + 4n bytes for the synchronized form, of 5n     *)
(* bytes for the incremental form.                                         *)
(***************************************************************************)
C13_JogBuildCompletes ==
    [][(builder.kind \in {"SJOG", "IJOG"} /\ builder' = NoBuilder) =>
         /\ ~panicked'
         /\ ret'.kind = "message"
         /\ Len(ret'.bytes) = 7 + (IF builder.kind = "SJOG"
                                   THEN 1 + 4 * Len(builder.pos.data)
                                   ELSE 5 * Len(builder.pos))
         /\ SubSeq(ret'.bytes, 8, Len(ret'.bytes)) = AppendedPayload(builder)]_vars

(***************************************************************************)
(* C14: when a validated packet arrives while the buffer holds its 64      *)
(* packets, parse reports it to its caller as an error value: the call is  *)
(* not fatal and the packet is not dropped silently.                       *)
(***************************************************************************)
\* how many validated packets the steps over the bytes of buf return
RECURSIVE Emitted(_, _)
Emitted(s, buf) ==
    IF buf = <<>> THEN 0
    ELSE LET r == step(s, Head(buf))
         IN  IF r.panic THEN 0
             ELSE (IF r.result.some THEN 1 ELSE 0) + Emitted(r.state, Tail(buf))

\* a parse step in which a validated packet arrives on a full buffer
PacketArrivesOnFullBuffer ==
    /\ Len(buffer) = TRAME_READER_INTERNAL_BUFFER_SIZE
    /\ wire' # wire
    /\ Emitted(state, SubSeq(wire, 1, Len(wire) - Len(wire'))) > 0

C14_FullBufferReported ==
    [][PacketArrivesOnFullBuffer => (~panicked' /\ ret'.kind = "Err")]_vars

(***************************************************************************)
(* C15: after any sequence of parse and pop_ack_packet calls,              *)
(* available_messages() is the number of validated frames accepted into    *)
(* the buffer minus the number of pops that returned a packet, and is at   *)
(* most TRAME_READER_INTERNAL_BUFFER_SIZE = 64.                            *)
(***************************************************************************)
C15_AvailableIsAcceptedMinusPopped ==
    ~panicked =>
        /\ Len(buffer) = accepted - pops
        /\ Len(buffer) <= TRAME_READER_INTERNAL_BUFFER_SIZE
        /\ ret.kind = "usize" => (ret.val = accepted - pops /\ ret.val <= TRAME_READER_INTERNAL_BUFFER_SIZE)

\* available_messages has answered 62 after 64 frames and two pops
C15_Witness ==
    /\ ret = [kind |-> "usize", val |-> 62]
    /\ pops = 2
    /\ accepted = 64

(***************************************************************************)
(* C16: Servo::set_position(p) and Servo::set_speed(s) clamp: for every    *)
(* u16 input the two little-endian data bytes of the synchronized-jog      *)
(* frame encode min(input, 1023), so the word never exceeds 1023 and never *)
(* has bit 14 set.                                                         *)
(***************************************************************************)
\* the 16-bit word of the first entry of a synchronized-jog frame
JogWord(m) == m[9] + 256 * m[10]

CommandOf(b) ==
    CASE b.kind = "Mem"     -> b.addr.kind
      [] b.kind = "Special" -> b.req.kind
      [] b.kind = "SJOG"    -> "SJog"
      [] b.kind = "IJOG"    -> "IJog"

C17_AckOpcodeIsRequestPlus40 ==
    [][BuildReturns =>
         LET opcode == ret'.bytes[5]
             parsed == StepCmd([st |-> "Cmd", size |-> 9, pid |-> builder.pid],
                               opcode + 64).state
         IN  /\ opcode \in 1..9
             /\ parsed.st = "Checksum1"
             /\ parsed.cmd = CommandOf(builder)
             /\ Command_into_u8([kind |-> parsed.cmd]) = opcode + 64]_vars

\* a rollback request has been built: outbound 0x08, inbound 0x48
C17_Witness ==
    /\ ret.kind = "message"
    /\ ret.bytes[5] = 8
    /\ builder = NoBuilder
    /\ InternalCommandOf(72) = "Rollback"

(***************************************************************************)
(* C18: in each readable address space, variant_of(address_of(v)) = v for  *)
(* every register variant v, address_of(variant_of(b)) = b for every byte  *)
(* b of the table, and the reverse lookup of a byte that is not in the     *)
(* table fails with InvalidAddress.                                        *)
(***************************************************************************)
try_from_of(space, b) ==
    IF space = "Ram" THEN ReadableRamAddr_try_from(b) ELSE ReadableEEPAddr_try_from(b)

into_u8_of(space) ==
    IF space = "Ram" THEN ReadableRamAddr_into_u8 ELSE ReadableEEPAddr_into_u8

\* the bytes that are the address of a register of the space
TableBytes(space) == {into_u8_of(space)[v] : v \in DOMAIN into_u8_of(space)}

C18_LookupRoundTrips ==
    /\ ret.kind = "into" => try_from_of(ret.space, ret.val) = ret.addr
    /\ (ret.kind = "try_from" /\ ret.byte \in TableBytes(ret.space)) =>
          /\ ret.val \in DOMAIN into_u8_of(ret.space)
          /\ into_u8_of(ret.space)[ret.val] = ret.byte
    /\ (ret.kind = "try_from" /\ ret.byte \notin TableBytes(ret.space)) =>
          ret.val = InvalidAddress

(***************************************************************************)
(* C19: in the initial state H1 the parser advances to the second-header   *)
(* state H2 only when the byte is 0xFF; on any other byte it stays in H1.  *)
(***************************************************************************)
\* a parse call of the one byte at the head of the wire
OneByteParsed == wire # <<>> /\ wire' = Tail(wire)

C19_H1AdvancesOnlyOnFF ==
    [][(state = H1 /\ OneByteParsed) =>
         state' = (IF Head(wire) = 255 THEN H2 ELSE H1)]_vars

(***************************************************************************)
(* C20: in the second-header state H2 the parser advances to the           *)
(* size-reading state only when the byte is 0xFF; on any other byte it     *)
(* returns to the initial state H1.                                        *)
(***************************************************************************)
C20_H2AdvancesOnlyOnFF ==
    [][(state = H2 /\ OneByteParsed) =>
         state' = (IF Head(wire) = 255 THEN Psize ELSE H1)]_vars

(***************************************************************************)
(* C21: a parser parked in a non-initial state by a frame that never       *)
(* completed, and then fed a complete well-formed frame starting with      *)
(* 0xFF 0xFF, resynchronises on that header and emits exactly the packet   *)
(* of that frame.                                                          *)
(***************************************************************************)
C21_ParkedParserResyncs ==
    (scn.noise # <<>> /\ scn.noise[1] = 255 /\ wire = <<>> /\ pops = 0) =>
        (~panicked /\ state = H1 /\ buffer = <<Expected(scn.frames[1])>>)

(***************************************************************************)
(* C22: in the command-reading state a byte in 0x41..0x49 advances to the  *)
(* checksum1 state carrying the command of that opcode, with size and id   *)
(* preserved; any other byte resets the parser to the initial state and    *)
(* nothing is emitted.                                                     *)
(***************************************************************************)
C22_CmdByteDecodedOrAborts ==
    [][(state.st = "Cmd" /\ OneByteParsed) =>
         IF Head(wire) \in 65..73
         THEN /\ state'.st = "Checksum1"
              /\ state'.size = state.size
              /\ state'.pid = state.pid
              /\ Command_into_u8([kind |-> state'.cmd]) = Head(wire)
              /\ buffer' = buffer
         ELSE state' = H1 /\ buffer' = buffer /\ ~panicked']_vars

\* the opcode byte of the first frame was replaced by a byte that is no
\* opcode and the parser is back in the initial state right after it
C22_Witness ==
    /\ scn.sub.pos = 5
    /\ scn.sub.val = 74
    /\ Consumed = 5
    /\ state = H1
    /\ buffer = <<>>

(***************************************************************************)
(* C23: after the checksum2 byte the parser goes to the data-address state *)
(* if and only if the command is persistent-read (0x42) or volatile-read   *)
(* (0x44); for the seven other commands the next byte is the status-error  *)
(* byte, so a well-formed non-read acknowledgement is 9 bytes long and its *)
(* packet is emitted on its 9th byte, not before.                          *)
(***************************************************************************)
C23_LayoutBranchesOnCommand ==
    /\ [][(state.st = "Checksum2" /\ OneByteParsed) =>
             /\ state'.st = (IF Command_into_u8([kind |-> state.cmd]) \in {66, 68}
                             THEN "DataAddr" ELSE "Error")
             /\ state'.chk2 = Head(wire)]_vars
    /\ []((~IsRead(scn.frames[1]) /\ pops = 0) =>
            /\ FrameLen(scn.frames[1]) = 9
            /\ buffer = (IF Consumed >= 9 THEN <<Expected(scn.frames[1])>> ELSE <<>>))

\* the ninth byte of a Rollback acknowledgement has just been parsed on its
\* own and the packet is in the buffer
C23_Witness ==
    /\ scn.frames[1].cmd = "Rollback"
    /\ Consumed = 9
    /\ ret = Unit
    /\ buffer = <<Expected(scn.frames[1])>>
    /\ state = H1

(***************************************************************************)
(* C24: in the data-address state the byte is looked up in the readable    *)
(* table of the space of the command (EEP table for persistent-read, RAM   *)
(* table for volatile-read); a byte that is not a register address of that *)
(* table resets the parser to the initial state with nothing emitted.      *)
(***************************************************************************)
SpaceOf(cmd) == IF cmd = "EEPRead" THEN "EEP" ELSE "Ram"

C24_DataAddrLookedUpOrAborts ==
    [][(state.st = "DataAddr" /\ OneByteParsed) =>
         IF Head(wire) \in TableBytes(SpaceOf(state.cmd))
         THEN /\ state'.st = (IF state.cmd = "EEPRead" THEN "DataLenEEP" ELSE "DataLenRAM")
              /\ into_u8_of(SpaceOf(state.cmd))[state'.data.addr] = Head(wire)
         ELSE state' = H1 /\ buffer' = buffer /\ ~panicked']_vars

(***************************************************************************)
(* C25: for a read acknowledgement, after the length byte the parser       *)
(* consumes exactly `length` data bytes before it interprets the next byte *)
(* as the status-error byte, for every value of the length byte.           *)
(***************************************************************************)
\* how many data bytes the parser has taken when it is in state s
DataBytesTaken(s) ==
    CASE s.st \in {"DataLenEEP", "DataLenRAM"} -> 0
      [] s.st \in {"Data1EEP", "Data1RAM"} -> 0
      [] s.st \in {"Data2EEP", "Data2RAM"} -> 1
      [] OTHER -> 0

\* the length byte the parser goes by: the byte being read in DataLen*, the
\* stored data_len afterwards
LengthByte(s, byte) ==
    IF s.st \in {"DataLenEEP", "DataLenRAM"} THEN byte ELSE s.data.data_len

C25_ConsumesLengthDataBytes ==
    [][(state.st \in {"DataLenEEP", "DataLenRAM", "Data1EEP", "Data1RAM",
                      "Data2EEP", "Data2RAM"} /\ OneByteParsed) =>
         LET taken == IF state.st \in {"DataLenEEP", "DataLenRAM"}
                      THEN 0 ELSE DataBytesTaken(state) + 1
         IN  (state'.st = "Error") <=> (taken = LengthByte(state, Head(wire)))]_vars

(***************************************************************************)
(* C26: after the byte consumed in the status-detail state the parser is   *)
(* always in the initial state, whatever the byte: detail matched and      *)
(* packet valid (emitted), matched and invalid (nothing emitted), or not   *)
(* matched (nothing emitted).                                              *)
(***************************************************************************)
C26_DetailAlwaysReturnsToH1 ==
    [][(state.st = "Detail" /\ OneByteParsed) =>
         /\ state' = H1
         /\ StatusDetailOf(Head(wire)) = "NoMatch" => buffer' = buffer]_vars

(***************************************************************************)
(* C27: for every packet the parser emits, the size field of the packet    *)
(* equals the number of bytes of the frame it was decoded from (7 plus the *)
(* number of bytes following checksum2).                                   *)
(***************************************************************************)
\* the bytes following checksum2 in the frame of a packet: for a read the
\* address, the length and the data bytes, then status error and detail
BytesAfterChecksum2(pkt) ==
    IF pkt.cmd.kind \in ReadCmds THEN 2 + pkt.cmd.data.data_len + 2 ELSE 2

SingleParse(s) == ParseLoop(H1, <<>>, s)

C28_ChunkingIndependent ==
    pops = 0 =>
        LET whole == SingleParse(SubSeq(Input(scn), 1, Consumed))
        IN  /\ state = whole.state
            /\ buffer = whole.buffer
            /\ panicked = whole.panic

\* two frames, more bytes than one call takes, have been fed in several
\* calls and both packets are in the buffer
C28_Witness ==
    /\ wire = <<>>
    /\ Len(Input(scn)) > MaxChunk + 1
    /\ pops = 0
    /\ Len(buffer) = 2
    /\ buffer[2].cmd.kind = "EEPRead"

(***************************************************************************)
(* C29: for every writable RAM or EEP register variant the register-write  *)
(* frame's payload is [wire address, length, value byte 1, value byte 2 if *)
(* and only if the register is 2 bytes wide], where length is the          *)
(* register's declared width and so the number of value bytes after it.    *)
(***************************************************************************)
\* a step that is the build() of a register write returning a frame
WriteBuildReturns == BuildReturns /\ builder.kind = "Mem"
                       /\ builder.addr.kind \in {"RamWrite", "EEPWrite"}

C29_WritePayloadLayout ==
    [][WriteBuildReturns =>
         LET reg == builder.addr.addr
             ram == builder.addr.kind = "RamWrite"
             width == IF ram THEN WritableRamAddr_bytes[reg.name]
                      ELSE WritableEEPAddr_bytes[reg.name]
             wireAddr == IF ram THEN WritableRamAddr_into_u8[reg.name]
                         ELSE WritableEEPAddr_into_u8[reg.name]
             payload == SubSeq(ret'.bytes, 8, Len(ret'.bytes))
         IN  /\ width \in {1, 2}
             /\ Len(payload) = 2 + width
             /\ payload[1] = wireAddr
             /\ payload[2] = width
             /\ payload[3] = reg.d[1]
             /\ width = 2 => payload[4] = reg.d[2]
             /\ ret'.bytes[5] = (IF ram THEN 3 ELSE 1)]_vars

\* the write frame of a two-byte EEP register has been built
C29_Witness ==
    /\ ret.kind = "message"
    /\ ret.bytes[5] = 1
    /\ Len(ret.bytes) = 11
    /\ ret.bytes[9] = 2
    /\ ret.bytes[11] = 254

(***************************************************************************)
(* C30: for every readable RAM or EEP register the register-read frame's   *)
(* payload is exactly [wire address, length], where length is the supplied *)
(* transfer length when one is given (passed through unchanged) and the    *)
(* register's declared width when it is omitted.                           *)
(***************************************************************************)
\* the length a read of a register of the given width asks for
RequestedLength(size, width) == IF size = None THEN width ELSE size.val

C30_ReadPayloadLayout ==
    /\ [][\A size \in ReadSizes :
            /\ \A a \in DOMAIN ReadableRamAddr_bytes :
                  read_ram(a, size) =>
                     builder'.size = RequestedLength(size, ReadableRamAddr_bytes[a])
            /\ \A a \in DOMAIN ReadableEEPAddr_bytes :
                  read_eep(a, size) =>
                     builder'.size = RequestedLength(size, ReadableEEPAddr_bytes[a])]_vars
    /\ [][(BuildReturns /\ builder.kind = "Mem"
             /\ builder.addr.kind \in {"RamRead", "EEPRead"}) =>
            /\ ret'.bytes[5] = (IF builder.addr.kind = "RamRead" THEN 4 ELSE 2)
            /\ SubSeq(ret'.bytes, 8, Len(ret'.bytes)) =
                  <<into_u8_of(IF builder.addr.kind = "RamRead" THEN "Ram" ELSE "EEP")
                      [builder.addr.addr],
                    builder.size>>]_vars

\* the read frame of a RAM register with the explicit length 255 has been built
C30_Witness ==
    /\ ret.kind = "message"
    /\ ret.bytes[5] = 4
    /\ Len(ret.bytes) = 9
    /\ ret.bytes[9] = 255

(***************************************************************************)
(* C31: a synchronized-jog frame (opcode 0x06) has payload [playtime]      *)
(* followed, for each entry in insertion order, by [data LSB, data MSB,    *)
(* set byte, id]; the data word is the raw position in position mode, or   *)
(* the speed (<= 1023) with bit 14 set exactly when the rotation is        *)
(* clockwise in speed mode; the set byte has bit 1 set exactly in speed    *)
(* mode plus exactly one colour bit (green 0x04, blue 0x08, red 0x10).     *)
(***************************************************************************)
\* the 16-bit data word of a jog entry, as the wire format defines it
DataWord(mode) ==
    IF mode.kind = "Normal" THEN mode.position
    ELSE mode.speed + (IF mode.rotation = "Clockwise" THEN 16384 ELSE 0)

ColourBit == [Green |-> 4, Blue |-> 8, Red |-> 16]

\* the four bytes at m[base .. base + 3] are those of jog entry e
EntryAt(m, base, e) ==
    /\ m[base] + 256 * m[base + 1] = DataWord(e.mode)
    /\ (m[base + 2] \div 2) % 2 = (IF e.mode.kind = "Continuous" THEN 1 ELSE 0)
    /\ m[base + 2] - 2 * ((m[base + 2] \div 2) % 2) = ColourBit[e.color]
    /\ m[base + 3] = e.id

C31_SJogPayloadLayout ==
    [][(BuildReturns /\ builder.kind = "SJOG") =>
         LET m == ret'.bytes
             entries == builder.pos.data
         IN  /\ m[5] = 6
             /\ Len(m) = 7 + 1 + 4 * Len(entries)
             /\ m[8] = builder.pos.playtime
             /\ \A k \in 1..Len(entries) :
                   /\ entries[k].mode.kind = "Continuous" => entries[k].mode.speed <= 1023
                   /\ EntryAt(m, 9 + 4 * (k - 1), entries[k])]_vars

\* a synchronized-jog frame of two entries, the first in speed mode, clockwise
\* and blue, has been built
C31_Witness ==
    /\ ret.kind = "message"
    /\ ret.bytes[5] = 6
    /\ Len(ret.bytes) = 16
    /\ ret.bytes[10] \div 64 = 1
    /\ ret.bytes[11] = 10

(***************************************************************************)
(* C32: an incremental-jog frame (opcode 0x05) has no leading shared       *)
(* playtime; its payload is, for each entry in insertion order, [data LSB, *)
(* data MSB, set byte, id, that entry's own playtime], the first entry's   *)
(* playtime being the playtime passed to i_jog.                            *)
(***************************************************************************)
C32_IJogPayloadLayout ==
    /\ [][\A r \in JogRequests :
            i_jog(r[1], r[2], r[3], 1) =>
               /\ Len(builder'.pos) = 1
               /\ builder'.pos[1].playtime = r[1]
               /\ builder'.pos[1].mode = r[2]
               /\ builder'.pos[1].color = r[3]
               /\ builder'.pos[1].id = 1]_vars
    /\ [][(BuildReturns /\ builder.kind = "IJOG") =>
            LET m == ret'.bytes
                entries == builder.pos
            IN  /\ m[5] = 5
                /\ Len(m) = 7 + 5 * Len(entries)
                /\ \A k \in 1..Len(entries) :
                      /\ EntryAt(m, 8 + 5 * (k - 1), entries[k])
                      /\ m[8 + 5 * (k - 1) + 4] = entries[k].playtime]_vars

\* an incremental-jog frame of two entries, the first with playtime 254, has
\* been built
C32_Witness ==
    /\ ret.kind = "message"
    /\ ret.bytes[5] = 5
    /\ Len(ret.bytes) = 17
    /\ ret.bytes[12] = 254

(***************************************************************************)
(* C33: a rollback frame (opcode 0x08) has the two-byte payload            *)
(* [skip_id, skip_baud], each byte in {0, 1}: SkipNone gives [0,0], SkipId *)
(* [1,0], SkipBaud [0,1], SkipBoth [1,1]; stat (0x07) and reboot (0x09)    *)
(* frames have an empty payload and size 7.                                *)
(***************************************************************************)
RollbackPayload ==
    [SkipNone |-> <<0, 0>>, SkipId |-> <<1, 0>>, SkipBaud |-> <<0, 1>>,
     SkipBoth |-> <<1, 1>>]

C33_SpecialPayloads ==
    /\ [][\A flags \in DOMAIN RollbackPayload :
            rollback(flags) =>
               <<builder'.req.skip_id, builder'.req.skip_baud>> = RollbackPayload[flags]]_vars
    /\ [][(BuildReturns /\ builder.kind = "Special") =>
            LET m == ret'.bytes
            IN  CASE builder.req.kind = "Rollback" ->
                       /\ m[5] = 8
                       /\ m[3] = 9
                       /\ SubSeq(m, 8, Len(m)) =
                             <<builder.req.skip_id, builder.req.skip_baud>>
                       /\ builder.req.skip_id \in {0, 1}
                       /\ builder.req.skip_baud \in {0, 1}
                  [] builder.req.kind = "Stat" ->
                       m[5] = 7 /\ m[3] = 7 /\ Len(m) = 7
                  [] builder.req.kind = "Reboot" ->
                       m[5] = 9 /\ m[3] = 7 /\ Len(m) = 7]_vars

\* the rollback frame of SkipBaud has been built
C33_Witness ==
    /\ ret.kind = "message"
    /\ ret.bytes[5] = 8
    /\ Len(ret.bytes) = 9
    /\ ret.bytes[8] = 0
    /\ ret.bytes[9] = 1

(***************************************************************************)
(* C34: bounded return to the initial state.  No parser state loops on     *)
(* itself: for every byte sequence the parser is in its initial state at   *)
(* least once within any 13 consecutive input bytes, so that at most 12    *)
(* bytes in a row are consumed outside the initial state.                  *)
(***************************************************************************)
\* the longest series of consecutive bytes of `bytes` that step consumes in a
\* state other than H1, from state s with `run` such bytes just before
RECURSIVE LongestRun(_, _, _, _)
LongestRun(s, bytes, run, best) ==
    IF bytes = <<>> THEN best
    ELSE LET now == IF s = H1 THEN 0 ELSE run + 1
             top == IF now > best THEN now ELSE best
             r == step(s, Head(bytes))
         IN  IF r.panic THEN top ELSE LongestRun(r.state, Tail(bytes), now, top)

C34_BackInH1Within13Bytes ==
    LongestRun(H1, SubSeq(Input(scn), 1, Consumed), 0, 0) <= 12

\* a two-byte EEP read acknowledgement went through all twelve states after
\* H1 and the frame after it has been fed too
C34_Witness ==
    /\ wire = <<>>
    /\ scn.sub = NoSub
    /\ scn.frames[1] = EEPReadAck
    /\ Len(buffer) = 2
    /\ LongestRun(H1, Input(scn), 0, 0) = 12

(***************************************************************************)
(* C35: in every reachable parser state that carries both a command and a  *)
(* payload (status-error and status-detail states) the payload kind        *)
(* matches the command: EEP data iff persistent-read, RAM data iff         *)
(* volatile-read, no payload for the seven other commands; and the         *)
(* data-address state is reachable with a read command only.  Hence        *)
(* neither unreachable!() (inject_payload, DataAddr) is ever executed.     *)
(***************************************************************************)
C35_PayloadKindMatchesCommand ==
    /\ state.st \in {"Error", "Detail"} =>
          /\ (state.payload.kind = "EEP") <=> (state.cmd = "EEPRead")
          /\ (state.payload.kind = "Ram") <=> (state.cmd = "RamRead")
          /\ (state.payload.kind = "Nothing") <=> (state.cmd \in NonReadCmds)
          /\ inject_payload(state.cmd, state.payload).kind # "unreachable"
    /\ state.st = "DataAddr" => state.cmd \in ReadCmds

\* the opcode of a RAM read acknowledgement was replaced by that of an EEP
\* read and the parser holds the EEP payload in the status-detail state
C35_Witness ==
    /\ scn.frames[1] = RamReadAck
    /\ scn.sub.val = 66
    /\ state.st = "Detail"
    /\ state.cmd = "EEPRead"
    /\ state.payload.kind = "EEP"

(***************************************************************************)
(* C36: acceptance of a frame does not depend on its status bytes: for two *)
(* frames identical except for their status-error and status-detail bytes, *)
(* both drawn from the eight known patterns, the parser emits a packet for *)
(* one if and only if it emits a packet for the other.                     *)
(***************************************************************************)
\* bytes with its last two bytes replaced by e and d
WithStatus(bytes, e, d) ==
    [i \in 1..Len(bytes) |->
        IF i = Len(bytes) - 1 THEN e ELSE IF i = Len(bytes) THEN d ELSE bytes[i]]

C36_AcceptanceIgnoresStatus ==
    (wire = <<>> /\ pops = 0
       /\ Input(scn)[Len(Input(scn)) - 1] \in StatusBytes
       /\ Input(scn)[Len(Input(scn))] \in StatusBytes) =>
        \A e \in StatusBytes, d \in StatusBytes :
            LET other == SingleParse(WithStatus(Input(scn), e, d))
            IN  (other.buffer # <<>>) <=> (buffer # <<>>)

\* a frame with one payload byte replaced, and yet accepted, has been fed
C36_Witness ==
    /\ wire = <<>>
    /\ pops = 0
    /\ scn.sub.val # Original
    /\ Input(scn)[Len(Input(scn))] \in StatusBytes
    /\ Len(buffer) = 1

(***************************************************************************)
(* C37: pop_ack_packet and available_messages leave the parser state       *)
(* untouched, so that calling either in the middle of a frame does not     *)
(* change how the remaining bytes are decoded; pop_ack_packet on an empty  *)
(* buffer returns None and changes nothing, and on a non-empty buffer      *)
(* removes exactly one packet and leaves the others in their order.        *)
(***************************************************************************)
\* seq without its element at index i
Without(seq, i) == SubSeq(seq, 1, i - 1) \o SubSeq(seq, i + 1, Len(seq))

C37_PopAndCountLeaveParserAlone ==
    [][/\ pop_ack_packet =>
            /\ state' = state
            /\ ParseLoop(state', <<>>, wire') = ParseLoop(state, <<>>, wire)
            /\ IF buffer = <<>>
               THEN ret'.opt = None /\ buffer' = buffer
               ELSE \E i \in 1..Len(buffer) :
                       /\ buffer' = Without(buffer, i)
                       /\ ret'.opt = Some(buffer[i])
       /\ available_messages =>
            /\ state' = state
            /\ buffer' = buffer
            /\ ParseLoop(state', <<>>, wire') = ParseLoop(state, <<>>, wire)]_vars

\* a packet was popped while the parser was in the middle of the next frame
C37_Witness ==
    /\ ret.kind = "option"
    /\ ret.opt.some
    /\ pops = 1
    /\ state.st = "Checksum2"
    /\ wire # <<>>
    /\ buffer = <<>>

(***************************************************************************)
(* C38: in each readable register table (RAM and EEP) the byte ranges of   *)
(* distinct registers do not overlap: for a register with wire address a   *)
(* and declared width w in {1, 2}, no other register of the same table has *)
(* its address in [a, a + w).                                              *)
(***************************************************************************)
C38_ReadableRangesDisjoint ==
    ret.kind = "bytes" =>
        LET into == into_u8_of(ret.space)
            a == into[ret.addr]
        IN  /\ ret.val \in {1, 2}
            /\ \A other \in DOMAIN into \ {ret.addr} :
                  ~(a <= into[other] /\ into[other] < a + ret.val)

=============================================================================
